---- MODULE Spec2Model ----
(***************************************************************************)
(* A model of the serving core of redis-rust: the optimized connection     *)
(* handler (production/connection_optimized.rs), the sharded actor state   *)
(* (production/sharded_actor.rs), the connection pool and the accept loop  *)
(* (production/connection_pool.rs, production/server_optimized.rs), and    *)
(* the key routing of the replicated sharded state                         *)
(* (production/replicated_state.rs).                                       *)
(*                                                                         *)
(* Bytes on a socket are modelled as fragments: a request frame is one     *)
(* header fragment that carries the request, any number of body fragments  *)
(* (payload bytes that do not complete the frame) and one tail fragment    *)
(* that completes it.  Every fragment has a size in bytes.                 *)
(***************************************************************************)
EXTENDS Integers, Sequences, FiniteSets, TLC

\* ------------------------------------------------------------------ bounds

\* connection slots of the listener
NumConns == 3
\* fragments (other than body fragments) a client sends on one connection
MaxInput == 4
\* ConnectionPool::new(max_connections, _): the capacity of the semaphore
MaxConnections == 2
\* fragments (other than body fragments) the client of the large-frame runs sends
BufInput == 2
\* seconds of virtual time a run covers
MaxTime == 6
\* seconds of virtual time a run of the sweeper covers
SweepTime == 2
\* local writes the replicas make in a run
MaxWrites == 3
\* the highest Lamport time a replica's clock reaches in a run
MaxClock == 4
\* the highest Lamport time of the values merged
MaxLamport == 2
\* calls of ReplicatedShardedState::execute in a run
MaxCalls == 2
\* physical nodes that may join the ring
NumNodes == 3
\* virtual nodes per physical node, at most
MaxV == 2
\* replication factors asked of the ring, at most
MaxRf == 3
\* membership changes of a ring in a run
MaxVersion == 3
\* messages sent to the gossip actor in a run
MaxGossip == 3

\* ------------------------------------------------------- program constants

NUM_SHARDS == 16
MAX_BUFFER_SIZE == 1024 * 1024
READ_BUF_SIZE == 8192

Conns == 1 .. NumConns
Shards == 0 .. (NUM_SHARDS - 1)
Keys == {"a", "b", "c"}

\* ------------------------------------------------------------ plain values

Cmd(op, keys, val) == [op |-> op, keys |-> keys, val |-> val]
NoCmd == Cmd("", <<>>, 0)

SimpleString(s) == [t |-> "SimpleString", s |-> s, n |-> 0, arr |-> <<>>]
Error(s) == [t |-> "Error", s |-> s, n |-> 0, arr |-> <<>>]
Integer(n) == [t |-> "Integer", s |-> "", n |-> n, arr |-> <<>>]
BulkString(v) == [t |-> "BulkString", s |-> "", n |-> v, arr |-> <<>>]
BulkNil == [t |-> "BulkNil", s |-> "", n |-> 0, arr |-> <<>>]
Array(elems) == [t |-> "Array", s |-> "", n |-> 0, arr |-> elems]

\* encode_error_into(msg, buf) writes "-ERR " msg "\r\n": the RESP error "ERR msg"
encode_error_into(msg) == Error(msg)

\* a reply in a write buffer: the encoded value, the number of the request it
\* answers (0 for an error that answers no request) and, for such an error,
\* the number of requests parsed before it
Reply(id, resp) == [id |-> id, after |-> 0, resp |-> resp]
Unsolicited(after, resp) == [id |-> 0, after |-> after, resp |-> resp]

Hd(r) == [t |-> "H", r |-> r, n |-> 1]
HdBig(r) == [t |-> "H", r |-> r, n |-> READ_BUF_SIZE]
Tl == [t |-> "T", r |-> NoCmd, n |-> 1]
Bad == [t |-> "X", r |-> NoCmd, n |-> 1]
Body == [t |-> "B", r |-> NoCmd, n |-> READ_BUF_SIZE]

RECURSIVE BufLen(_)
BufLen(buf) == IF buf = <<>> THEN 0 ELSE Head(buf).n + BufLen(Tail(buf))

RECURSIVE Flat(_)
Flat(batches) == IF batches = <<>> THEN <<>> ELSE Head(batches) \o Flat(Tail(batches))

\* --------------------------------------------------------------- variables

VARIABLES
    pc,            \* per connection: "none", "spawned", "read", "await", "closed"
    buffer,        \* per connection: the read buffer (unconsumed fragments)
    write_buffer,  \* per connection: replies encoded and not yet written
    cur,           \* per connection: the command being dispatched
    reply,         \* per connection: the one-shot reply channel of its shard command
    sent,          \* per connection: the batches written to the socket
    budget,        \* per connection: fragments the client may still send
    permits,       \* free permits of the connection semaphore
    mailbox,       \* per shard: the unbounded mpsc queue of ShardCommand
    data,          \* per shard: the executor's key -> value map (0: absent)
    stream,        \* history, per connection: the packets the reads returned
    rshards,       \* per shard of the replicated state: executor, replicated_keys, time
    rphase,        \* the replicated state: "off" (not in use), "boot", "serving"
    rbudget,       \* operations the replicated state may still be given
    eof,           \* history, per connection: a read returned 0 bytes or an error
    parsed,        \* history, per connection: the requests the parser returned
    perr,          \* history, per connection: parse errors met
    ovf,           \* history, per connection: size that overflowed (0: none)
    batchStart,    \* history, per connection: requests parsed before this read
    lastAck,       \* history, per connection and key: version of its last acknowledged write
    sendLog,       \* history, per shard: message ids in the order they were enqueued
    applyLog,      \* history, per shard: message ids in the order they were applied
    kver,          \* history, per shard and key: position in applyLog of the last write
    now,           \* virtual time in ms (the simulation's clock, or time since start-up)
    srv,           \* the simulated RedisServer's executor
    shardExec,     \* ShardedRedisState: per shard, the executor behind its lock
    sweep,         \* the TTL manager's task: where it is in its loop
    tlast,         \* history: the last command the simulated server handled
    nodes,         \* per replica: the replicated shard that owns the key
    emitted,       \* the deltas the replicas have emitted
    applied,       \* history, per replica: the remote deltas applied, in order
    margs,         \* three replicated values
    mres,          \* the merges computed from margs
    rcfg,          \* replicated state: replication enabled, delta sink none/open/closed
    gmail,         \* the gossip actor's mailbox
    sinkq,         \* the delta sink's channel
    sinkrecv,      \* history: the deltas the sink's receiver has taken, in order
    rcall,         \* per caller of ReplicatedShardedState::execute: where it is
    ring,          \* a HashRing: ring, physical_nodes, version and its configuration
    rq,            \* the last replica lookup on the ring and what it returned
    gstate,        \* the gossip actor's GossipState: outbound queue, router
    glog,          \* history: the routed messages queued and the batches drained
    sa,            \* a shard actor, its mailbox and the callers of its handle
    pserver,       \* the persistent server: main, its handlers, the persistence worker
    adapt,         \* the adaptive replication controller
    wire,          \* a RESP value, its encoding and what the parser made of it
    bpool,         \* the buffer pool and the buffers the connections hold
    vtime,         \* a shard actor's clock, its mailbox and the connections' readings
    locks          \* per caller of the replicated state: the method it runs, the locks it holds

connVars == <<pc, buffer, write_buffer, cur, reply, sent, budget>>
connHist == <<stream, eof, parsed, perr, ovf, batchStart, lastAck>>
shardVars == <<mailbox, data, sendLog, applyLog, kver>>
fwdVars == <<rcfg, gmail, sinkq, sinkrecv, rcall>>
replVars == <<rshards, rphase, rbudget, fwdVars>>
ttlVars == <<now, srv, shardExec, sweep, tlast>>
crdtVars == <<nodes, emitted, applied>>
mergeVars == <<margs, mres>>
lastVars == <<sa, pserver, adapt, wire, bpool, vtime, locks>>
meshVars == <<ring, rq, gstate, glog, lastVars>>
auxVars == <<ttlVars, crdtVars, mergeVars, meshVars>>
vars == <<connVars, connHist, shardVars, permits, replVars, auxVars>>

\* ------------------------------------------------------------- RESP parser

RECURSIVE FrameEnd(_, _)
\* index of the first fragment after position i that is not a body fragment, 0 if none
FrameEnd(buf, i) ==
    IF i > Len(buf) THEN 0
    ELSE IF buf[i].t # "B" THEN i
    ELSE FrameEnd(buf, i + 1)

\* RespCodec::parse(&mut buffer): Ok(Some(value)) with the frame consumed,
\* Ok(None) when the buffer holds no complete frame (nothing consumed), Err on
\* malformed input
parse(buf) ==
    IF buf = <<>> THEN [kind |-> "None", value |-> NoCmd, rest |-> buf]
    ELSE IF buf[1].t # "H" THEN [kind |-> "Err", value |-> NoCmd, rest |-> buf]
    ELSE LET e == FrameEnd(buf, 2) IN
         IF e = 0 THEN [kind |-> "None", value |-> NoCmd, rest |-> buf]
         ELSE IF buf[e].t = "T"
              THEN [kind |-> "Some", value |-> buf[1].r,
                    rest |-> SubSeq(buf, e + 1, Len(buf))]
              ELSE [kind |-> "Err", value |-> NoCmd, rest |-> buf]

\* --------------------------------------------------------------- commands

KnownOps == {"PING", "GET", "SET", "DEL", "EXISTS", "LLEN", "MGET", "MSET", "FLUSHDB"}

Arity(op) ==
    CASE op \in {"PING", "FLUSHDB"} -> {0}
      [] op \in {"GET", "SET", "DEL", "LLEN"} -> {1}
      [] op = "EXISTS" -> {0, 1, 2, 3}
      [] OTHER -> {1, 2, 3}

\* Command::from_resp_zero_copy(&resp_value): the command, or an error message
from_resp_zero_copy(r) ==
    IF r.op \notin KnownOps
    THEN [ok |-> FALSE, cmd |-> NoCmd, err |-> "unknown command"]
    ELSE IF Len(r.keys) \notin Arity(r.op)
    THEN [ok |-> FALSE, cmd |-> NoCmd, err |-> "wrong number of arguments"]
    ELSE [ok |-> TRUE, cmd |-> r, err |-> ""]

\* Command::get_primary_key(): the key of a single-key command
HasPrimaryKey(cmd) ==
    cmd.op \in {"GET", "SET", "DEL", "LLEN", "SETNX", "INCR", "TTL"} /\ Len(cmd.keys) > 0
get_primary_key(cmd) == cmd.keys[1]

\* stored values from NumericBase on are strings that parse as integers:
\* NumericBase + n stands for the decimal string of n
NumericBase == 10
IsNumeric(v) == v >= NumericBase

\* CommandExecutor::execute(&cmd) on one shard's map d: the new map and the reply
execute(d, cmd) ==
    LET k == cmd.keys[1] IN
    CASE cmd.op = "SET" ->
           [data |-> [d EXCEPT ![k] = cmd.val], resp |-> SimpleString("OK")]
      [] cmd.op = "GET" ->
           [data |-> d, resp |-> IF d[k] = 0 THEN BulkNil ELSE BulkString(d[k])]
      [] cmd.op = "DEL" ->
           [data |-> [d EXCEPT ![k] = 0], resp |-> Integer(IF d[k] = 0 THEN 0 ELSE 1)]
      [] cmd.op = "EXISTS" ->
           [data |-> d,
            resp |-> Integer(Cardinality({i \in 1 .. Len(cmd.keys) : d[cmd.keys[i]] # 0}))]
      [] cmd.op = "LLEN" ->
           [data |-> d,
            resp |-> IF d[k] = 0 THEN Integer(0)
                     ELSE Error("WRONGTYPE Operation against a key holding the wrong kind of value")]
      [] cmd.op \in {"FLUSHDB", "FLUSHALL"} ->
           [data |-> [x \in Keys |-> 0], resp |-> SimpleString("OK")]
      [] cmd.op = "SETNX" ->
           IF d[k] = 0
           THEN [data |-> [d EXCEPT ![k] = cmd.val], resp |-> Integer(1)]
           ELSE [data |-> d, resp |-> Integer(0)]
      [] cmd.op = "INCR" ->
           IF d[k] = 0
           THEN [data |-> [d EXCEPT ![k] = NumericBase + 1], resp |-> Integer(1)]
           ELSE IF IsNumeric(d[k])
           THEN [data |-> [d EXCEPT ![k] = @ + 1], resp |-> Integer(d[k] + 1 - NumericBase)]
           ELSE [data |-> d, resp |-> Error("ERR value is not an integer or out of range")]
      [] cmd.op = "TTL" ->
           [data |-> d, resp |-> Integer(IF d[k] = 0 THEN 0 - 2 ELSE 0 - 1)]
      [] OTHER -> [data |-> d, resp |-> Error("ERR unknown command")]

\* the keys a command writes on a shard whose map is d
Written(d, cmd) ==
    CASE cmd.op = "SET" -> {cmd.keys[1]}
      [] cmd.op = "DEL" -> {k \in {cmd.keys[1]} : d[k] # 0}
      [] cmd.op = "FLUSHDB" -> {k \in Keys : d[k] # 0}
      [] OTHER -> {}

\* ------------------------------------------------------ sharded actor state

\* stand-in for std's DefaultHasher: a fixed 64-bit hash of the key
DefaultHasher(key) ==
    CASE key = "a" -> 35
      [] key = "b" -> 19
      [] OTHER -> 72

hash_key(key) == DefaultHasher(key) % NUM_SHARDS

RouteToFirstShard(cmd) == 0

RouteReadsToShardZero(cmd) ==
    IF HasPrimaryKey(cmd) /\ cmd.op # "GET" THEN hash_key(get_primary_key(cmd)) ELSE 0

\* ShardedActorState::execute, the default arm: the shard of a command
Route(cmd) == IF HasPrimaryKey(cmd) THEN hash_key(get_primary_key(cmd)) ELSE 0

\* ShardedActorState::execute: the shard commands one command is dispatched as,
\* in the order their futures are awaited (a future sends when it is first polled)
MGetShardZero(key) == 0

\* ShardedActorState::execute, the MGet arm, line 150: each key is read on its own shard
MGetShard(key) == hash_key(key)

SubCmds(cmd) ==
    CASE cmd.op = "PING" -> <<>>
      [] cmd.op = "FLUSHDB" ->
           [i \in 1 .. NUM_SHARDS |-> [shard |-> i - 1, cmd |-> Cmd("FLUSHDB", <<>>, 0)]]
      [] cmd.op = "MGET" ->
           [i \in 1 .. Len(cmd.keys) |->
              [shard |-> MGetShard(cmd.keys[i]), cmd |-> Cmd("GET", <<cmd.keys[i]>>, 0)]]
      [] cmd.op = "MSET" ->
           [i \in 1 .. Len(cmd.keys) |->
              [shard |-> hash_key(cmd.keys[i]), cmd |-> Cmd("SET", <<cmd.keys[i]>>, cmd.val)]]
      [] cmd.op = "EXISTS" ->
           [i \in 1 .. Len(cmd.keys) |->
              [shard |-> hash_key(cmd.keys[i]), cmd |-> Cmd("EXISTS", <<cmd.keys[i]>>, 0)]]
      [] OTHER -> <<[shard |-> Route(cmd), cmd |-> cmd]>>

RECURSIVE SumIntegers(_)
SumIntegers(acc) ==
    IF acc = <<>> THEN 0
    ELSE (IF Head(acc).t = "Integer" THEN Head(acc).n ELSE 0) + SumIntegers(Tail(acc))

\* ShardedActorState::execute: the reply built from the shard replies acc
Join(cmd, acc) ==
    CASE cmd.op = "PING" -> SimpleString("PONG")
      [] cmd.op \in {"FLUSHDB", "MSET"} -> SimpleString("OK")
      [] cmd.op = "MGET" -> Array(acc)
      [] cmd.op = "EXISTS" -> Integer(SumIntegers(acc))
      [] OTHER -> acc[1]

\* mpsc::UnboundedSender::send / UnboundedReceiver::recv
Send(q, m) == Append(q, m)
RecvNewest(q) == [msg |-> q[Len(q)], rest |-> SubSeq(q, 1, Len(q) - 1)]
Recv(q) == [msg |-> Head(q), rest |-> Tail(q)]

\* ------------------------------------------------------ connection handler

\* a fragment appended to a buffer; adjacent body bytes are one fragment
Push(buf, f) ==
    IF f.t = "B" /\ buf # <<>> /\ buf[Len(buf)].t = "B"
    THEN [buf EXCEPT ![Len(buf)].n = @ + f.n]
    ELSE Append(buf, f)

RECURSIVE Extend(_, _)
\* run(), line 66: buffer.extend_from_slice(&read_buf[..n])
Extend(buf, p) == IF p = <<>> THEN buf ELSE Extend(Push(buf, Head(p)), Tail(p))

\* run(), line 59: the read of n bytes would overflow the read buffer
OverflowsBeforeRead(len, n) == len > MAX_BUFFER_SIZE
Overflows(len, n) == len + n > MAX_BUFFER_SIZE

\* run(), line 78: NeedMoreData leaves the read buffer as it is
DropOnNeedMoreData(buf) == <<>>
OnNeedMoreData(buf) == buf

\* run(), line 81: a parse error drains the read buffer
OnParseError(buf) == <<>>

\* run(), lines 103-105: where the handler goes after the batch of a parse error
AfterBatch(had_parse_error) == "read"

\* try_execute_command, lines 130-133: a command error is answered and counts
\* as an executed command
CommandErrorAsParseError == "ParseError"
OnCommandError == "Executed"

\* encode_resp_into(&response, &mut write_buffer): appended to the write buffer
AppendReply(wb, r) == Append(wb, r)

\* run(), lines 89-101: the replies written when the handler suspends; the write
\* buffer is written only once the inner loop has ended
WriteBatchEager(wb, stop) == wb
WriteBatch(wb, stop) == IF stop = "done" THEN wb ELSE <<>>

RECURSIVE Pipeline(_, _, _, _, _)
\* run(), lines 69-87 with try_execute_command: the inner loop, run from a read
\* buffer and a write buffer up to the handler's next suspension: the dispatch
\* of a command to a shard ("await") or the end of the loop ("done")
Pipeline(buf, wb, ps, pe, err) ==
    LET p == parse(buf) IN
    IF p.kind = "None"
    THEN [stop |-> "done", buffer |-> OnNeedMoreData(buf), wb |-> wb, parsed |-> ps,
          perr |-> pe, cmd |-> NoCmd, had_parse_error |-> err]
    ELSE IF p.kind = "Err" \/ (p.kind = "Some" /\ ~from_resp_zero_copy(p.value).ok
                                               /\ OnCommandError # "Executed")
    THEN [stop |-> "done", buffer |-> OnParseError(buf),
          wb |-> AppendReply(wb, Unsolicited(Len(ps), encode_error_into("protocol error"))),
          parsed |-> ps, perr |-> pe + 1, cmd |-> NoCmd, had_parse_error |-> TRUE]
    ELSE LET f == from_resp_zero_copy(p.value)
             ps2 == Append(ps, p.value)
         IN  IF ~f.ok
             THEN Pipeline(p.rest, AppendReply(wb, Reply(Len(ps2), encode_error_into(f.err))),
                           ps2, pe, err)
             ELSE IF SubCmds(f.cmd) = <<>>
             THEN Pipeline(p.rest, AppendReply(wb, Reply(Len(ps2), Join(f.cmd, <<>>))),
                           ps2, pe, err)
             ELSE [stop |-> "await", buffer |-> p.rest, wb |-> wb, parsed |-> ps2,
                   perr |-> pe, cmd |-> f.cmd, had_parse_error |-> err]

NoReply == [full |-> FALSE, resp |-> BulkNil, ver |-> 0]
Idle == [cmd |-> NoCmd, subs |-> <<>>, acc |-> <<>>, sub |-> NoCmd]

\* ShardHandle::execute, lines 49-56: the ShardCommand of connection c's sub-command
ShardCommand(c, req, i, cmd) == [cmd |-> cmd, tx |-> c, id |-> <<c, req, i>>]

\* the handler of connection c suspends in the state r the inner loop left
Suspend(c, r) ==
    LET written == WriteBatch(r.wb, r.stop)
        subs == SubCmds(r.cmd)
        m == ShardCommand(c, Len(r.parsed), 1, subs[1].cmd)
    IN
    /\ buffer' = [buffer EXCEPT ![c] = r.buffer]
    /\ parsed' = [parsed EXCEPT ![c] = r.parsed]
    /\ perr' = [perr EXCEPT ![c] = r.perr]
    /\ sent' = [sent EXCEPT ![c] = IF written = <<>> THEN @ ELSE Append(@, written)]
    /\ write_buffer' = [write_buffer EXCEPT ![c] = SubSeq(r.wb, Len(written) + 1, Len(r.wb))]
    /\ reply' = [reply EXCEPT ![c] = NoReply]
    /\ IF r.stop = "await"
       THEN /\ pc' = [pc EXCEPT ![c] = "await"]
            /\ cur' = [cur EXCEPT ![c] = [cmd |-> r.cmd, subs |-> Tail(subs), acc |-> <<>>,
                                          sub |-> subs[1].cmd]]
            /\ mailbox' = [mailbox EXCEPT ![subs[1].shard] = Send(@, m)]
            /\ sendLog' = [sendLog EXCEPT ![subs[1].shard] = Append(@, m.id)]
            /\ UNCHANGED permits
       ELSE /\ pc' = [pc EXCEPT ![c] = AfterBatch(r.had_parse_error)]
            /\ cur' = [cur EXCEPT ![c] = Idle]
            /\ permits' = IF AfterBatch(r.had_parse_error) = "closed" THEN permits + 1 ELSE permits
            /\ UNCHANGED <<mailbox, sendLog>>

\* the fragments of packet p that count against the client's budget
Cost(p) == Cardinality({i \in 1 .. Len(p) : p[i].t # "B"})

\* run(), lines 53-108: one socket read returns packet p; the handler runs up
\* to its next suspension
Read(c, p) ==
    /\ pc[c] = "read"
    /\ Cost(p) <= budget[c]
    /\ BufLen(p) \in 1 .. READ_BUF_SIZE
    /\ budget' = [budget EXCEPT ![c] = @ - Cost(p)]
    /\ stream' = [stream EXCEPT ![c] = Append(@, p)]
    /\ batchStart' = [batchStart EXCEPT ![c] = Len(parsed[c])]
    /\ UNCHANGED <<data, applyLog, kver, lastAck, eof, replVars, auxVars>>
    /\ IF Overflows(BufLen(buffer[c]), BufLen(p))
       THEN LET wb == AppendReply(write_buffer[c],
                         Unsolicited(Len(parsed[c]), encode_error_into("buffer overflow")))
            IN  /\ sent' = [sent EXCEPT ![c] = Append(@, wb)]
                /\ write_buffer' = [write_buffer EXCEPT ![c] = <<>>]
                /\ pc' = [pc EXCEPT ![c] = "closed"]
                /\ ovf' = [ovf EXCEPT ![c] = BufLen(buffer[c]) + BufLen(p)]
                /\ permits' = permits + 1
                /\ buffer' = [buffer EXCEPT ![c] = <<>>]
                /\ UNCHANGED <<cur, reply, mailbox, sendLog, parsed, perr>>
       ELSE /\ Suspend(c, Pipeline(Extend(buffer[c], p), write_buffer[c], parsed[c], perr[c], FALSE))
            /\ UNCHANGED ovf

\* run(), lines 54-57 and 109-112: the read returns 0 bytes or an error
Disconnect(c) ==
    /\ pc[c] = "read"
    /\ pc' = [pc EXCEPT ![c] = "closed"]
    /\ buffer' = [buffer EXCEPT ![c] = <<>>]
    /\ permits' = permits + 1
    /\ eof' = [eof EXCEPT ![c] = TRUE]
    /\ UNCHANGED <<write_buffer, cur, reply, sent, budget, shardVars>>
    /\ UNCHANGED <<stream, parsed, perr, ovf, batchStart, lastAck, replVars, auxVars>>

\* ShardHandle::execute, line 60, and the rest of ShardedActorState::execute and
\* try_execute_command: the shard's reply arrives; the next sub-command is sent
\* or the command's reply is encoded and the inner loop goes on
Resume(c) ==
    /\ pc[c] = "await"
    /\ reply[c].full
    /\ LET acc == Append(cur[c].acc, reply[c].resp)
           req == Len(parsed[c])
           top == cur[c].cmd
       IN
       /\ lastAck' = IF cur[c].sub.op \in {"SET", "DEL"}
                     THEN [lastAck EXCEPT ![c][cur[c].sub.keys[1]] = reply[c].ver]
                     ELSE lastAck
       /\ UNCHANGED <<budget, stream, eof, batchStart, ovf, data, applyLog, kver, replVars, auxVars>>
       /\ IF cur[c].subs # <<>>
          THEN LET nxt == Head(cur[c].subs)
                   m == ShardCommand(c, req, Len(acc) + 1, nxt.cmd)
               IN  /\ cur' = [cur EXCEPT ![c] = [cmd |-> top, subs |-> Tail(cur[c].subs),
                                                 acc |-> acc, sub |-> nxt.cmd]]
                   /\ mailbox' = [mailbox EXCEPT ![nxt.shard] = Send(@, m)]
                   /\ sendLog' = [sendLog EXCEPT ![nxt.shard] = Append(@, m.id)]
                   /\ reply' = [reply EXCEPT ![c] = NoReply]
                   /\ UNCHANGED <<pc, buffer, write_buffer, sent, permits, parsed, perr>>
          ELSE Suspend(c, Pipeline(buffer[c],
                                   AppendReply(write_buffer[c], Reply(req, Join(top, acc))),
                                   parsed[c], perr[c], FALSE))

\* ------------------------------------------------------------- shard actor

\* ShardActor::run, lines 30-34: one message is received, executed and answered
ShardStep(s) ==
    /\ mailbox[s] # <<>>
    /\ LET m == Recv(mailbox[s]).msg
           res == execute(data[s], m.cmd)
           n == Len(applyLog[s]) + 1
           kv == [k \in Keys |-> IF k \in Written(data[s], m.cmd) THEN n ELSE kver[s][k]]
       IN
       /\ mailbox' = [mailbox EXCEPT ![s] = Recv(mailbox[s]).rest]
       /\ data' = [data EXCEPT ![s] = res.data]
       /\ applyLog' = [applyLog EXCEPT ![s] = Append(@, m.id)]
       /\ kver' = [kver EXCEPT ![s] = kv]
       /\ reply' = [reply EXCEPT ![m.tx] =
                      [full |-> TRUE, resp |-> res.resp,
                       ver |-> IF Len(m.cmd.keys) > 0 THEN kv[m.cmd.keys[1]] ELSE 0]]
    /\ UNCHANGED <<pc, buffer, write_buffer, cur, sent, budget, permits, sendLog, connHist, replVars, auxVars>>

\* ---------------------------------------------------------------- listener

\* OptimizedRedisServer::run, lines 42-49: a connection is accepted and its task spawned
Accept(c) ==
    /\ pc[c] = "none"
    /\ pc' = [pc EXCEPT ![c] = "spawned"]
    /\ UNCHANGED <<buffer, write_buffer, cur, reply, sent, budget, permits, connHist, shardVars, replVars, auxVars>>

\* ConnectionPool::acquire_permit and OptimizedConnectionHandler::new: the task
\* gets a permit and starts its handler
CanAcquireAlways(free) == TRUE
CanAcquire(free) == free > 0

Acquire(c) ==
    /\ pc[c] = "spawned"
    /\ CanAcquire(permits)
    /\ permits' = permits - 1
    /\ pc' = [pc EXCEPT ![c] = "read"]
    /\ UNCHANGED <<buffer, write_buffer, cur, reply, sent, budget, connHist, shardVars, replVars, auxVars>>

\* ------------------------------------------------ replicated sharded state

LocalReplica == 1
RemoteReplica == LocalReplica + 1

\* ReplicatedValue: payload (0: none), Lamport tuple, tombstone flag
ReplicatedValue(v, t, r, tomb) == [v |-> v, time |-> t, replica |-> r, tombstone |-> tomb]
NoValue == ReplicatedValue(0, 0, 0, FALSE)

ReplicationDelta(key, value) == [key |-> key, value |-> value]

merge_takes_incoming(a, b) == b

merge_restamps(a, b) ==
    IF b.time > a.time \/ (b.time = a.time /\ b.replica > a.replica)
    THEN [b EXCEPT !.time = @ + 1]
    ELSE a

merge_ties_to_self(a, b) == IF b.time > a.time THEN b ELSE a

\* ReplicatedValue::merge: last writer wins on the Lamport tuple
merge(a, b) ==
    IF b.time > a.time \/ (b.time = a.time /\ b.replica > a.replica) THEN b ELSE a

\* ReplicatedShard::new(replica_id, ..)
NewShard(replica_id) ==
    [executor |-> [k \in Keys |-> 0], replicated_keys |-> [k \in Keys |-> NoValue],
     time |-> 0, replica |-> replica_id, pending |-> <<>>]

EmptyShard == NewShard(LocalReplica)

\* ShardReplicaState::record_write and record_delete: the clock ticks, the
\* key's replicated value is replaced and the delta joins the pending deltas
record_write(sh, key, value) ==
    LET rv == ReplicatedValue(value, sh.time + 1, sh.replica, FALSE) IN
    [sh EXCEPT !.time = @ + 1,
               !.replicated_keys[key] = rv,
               !.pending = Append(@, ReplicationDelta(key, rv))]

\* record_delete returns an Option: a key the replica state holds no live
\* value for yields no delta
record_delete(sh, key) ==
    LET rv == ReplicatedValue(0, sh.time + 1, sh.replica, TRUE) IN
    IF sh.replicated_keys[key] = NoValue \/ sh.replicated_keys[key].tombstone
    THEN sh
    ELSE [sh EXCEPT !.time = @ + 1,
                    !.replicated_keys[key] = rv,
                    !.pending = Append(@, ReplicationDelta(key, rv))]

replica_state_apply_keeps_clock(sh, delta) ==
    [sh EXCEPT !.replicated_keys[delta.key] = merge(@, delta.value)]

\* ShardReplicaState::apply_remote_delta
replica_state_apply(sh, delta) ==
    [sh EXCEPT !.time = (IF @ > delta.value.time THEN @ ELSE delta.value.time) + 1,
               !.replicated_keys[delta.key] = merge(@, delta.value)]

record_every_command(sh, cmd) ==
    IF Len(cmd.keys) > 0 /\ sh.executor[cmd.keys[1]] # 0
    THEN record_write(sh, cmd.keys[1], sh.executor[cmd.keys[1]])
    ELSE sh

\* ReplicatedShard::record_mutation_post_execute, on the shard as the
\* executor left it
record_mutation_post_execute(sh, cmd) ==
    CASE cmd.op = "SET" -> record_write(sh, cmd.keys[1], cmd.val)
      [] cmd.op = "SETNX" ->
           IF sh.executor[cmd.keys[1]] # 0
           THEN record_write(sh, cmd.keys[1], cmd.val)
           ELSE sh
      [] cmd.op = "DEL" -> record_delete(sh, cmd.keys[1])
      [] cmd.op = "INCR" ->
           IF sh.executor[cmd.keys[1]] # 0
           THEN record_write(sh, cmd.keys[1], sh.executor[cmd.keys[1]])
           ELSE sh
      [] OTHER -> sh

\* ReplicatedShard::execute: the executor runs the command, then the mutation is recorded
shard_execute(sh, cmd) ==
    record_mutation_post_execute([sh EXCEPT !.executor = execute(@, cmd).data], cmd)

NoDelta == ReplicationDelta("", NoValue)

\* the delta ReplicatedShard::execute returns: the one it recorded, if any
returned_delta(before, after) ==
    IF Len(after.pending) > Len(before.pending)
    THEN after.pending[Len(after.pending)]
    ELSE NoDelta

apply_as_local_write(sh, delta) ==
    shard_execute(sh, IF delta.value.tombstone THEN Cmd("DEL", <<delta.key>>, 0)
                      ELSE Cmd("SET", <<delta.key>>, delta.value.v))

apply_to_executor_only(sh, delta) ==
    IF ~delta.value.tombstone
    THEN [sh EXCEPT !.executor = execute(@, Cmd("SET", <<delta.key>>, delta.value.v)).data]
    ELSE [sh EXCEPT !.executor = execute(@, Cmd("DEL", <<delta.key>>, 0)).data]

\* ReplicatedShard::apply_remote_delta
apply_remote_delta(sh, delta) ==
    LET st == replica_state_apply(sh, delta) IN
    IF ~delta.value.tombstone
    THEN [st EXCEPT !.executor = execute(@, Cmd("SET", <<delta.key>>, delta.value.v)).data]
    ELSE [st EXCEPT !.executor = execute(@, Cmd("DEL", <<delta.key>>, 0)).data]

RECURSIVE apply_remote_deltas(_, _)
\* ReplicatedShardedState::apply_remote_deltas
apply_remote_deltas(shs, deltas) ==
    IF deltas = <<>> THEN shs
    ELSE LET shard_idx == hash_key(Head(deltas).key) IN
         apply_remote_deltas([shs EXCEPT ![shard_idx] = apply_remote_delta(@, Head(deltas))],
                             Tail(deltas))

RECURSIVE MSetEach(_, _, _)
\* execute_global, the MSet arm: one SET per pair on the pair's shard
MSetEach(shs, keys, val) ==
    IF keys = <<>> THEN shs
    ELSE LET shard_idx == hash_key(Head(keys)) IN
         MSetEach([shs EXCEPT ![shard_idx] = shard_execute(@, Cmd("SET", <<Head(keys)>>, val))],
                  Tail(keys), val)

\* ReplicatedShardedState::execute_global
execute_global(shs, cmd) ==
    CASE cmd.op \in {"FLUSHDB", "FLUSHALL"} ->
           [s \in Shards |-> [shs[s] EXCEPT !.executor = execute(@, cmd).data]]
      [] cmd.op = "MSET" -> MSetEach(shs, cmd.keys, cmd.val)
      [] OTHER -> shs

\* ReplicatedShardedState::execute
replicated_execute(shs, cmd) ==
    IF HasPrimaryKey(cmd)
    THEN [shs EXCEPT ![hash_key(get_primary_key(cmd))] = shard_execute(@, cmd)]
    ELSE execute_global(shs, cmd)

\* ReplicatedShardedState::apply_recovered_state: the checkpoint (a map from
\* some keys to replicated values) is installed, then the deltas are applied
ApplyRecoveredState(checkpoint, deltas) ==
    /\ rphase = "boot"
    /\ rphase' = "serving"
    /\ rshards' = apply_remote_deltas(
           [s \in Shards |->
              [rshards[s] EXCEPT
                 !.replicated_keys =
                    [k \in Keys |-> IF k \in DOMAIN checkpoint /\ hash_key(k) = s
                                     THEN checkpoint[k] ELSE @[k]],
                 !.executor =
                    [k \in Keys |-> IF /\ k \in DOMAIN checkpoint /\ hash_key(k) = s
                                        /\ ~checkpoint[k].tombstone
                                     THEN checkpoint[k].v ELSE @[k]]]],
           deltas)
    /\ UNCHANGED <<rbudget, fwdVars, connVars, connHist, shardVars, permits, auxVars>>

Callers == 1 .. 2

\* GossipMessage::QueueDeltas
QueueDeltas(deltas) == [t |-> "QueueDeltas", deltas |-> deltas, router |-> <<>>]

\* execute, lines 231-243: with replication enabled the delta is sent to the
\* gossip backend
forward_gossip(q, cfg, delta) ==
    IF delta # NoDelta /\ cfg.enabled THEN Append(q, QueueDeltas(<<delta>>)) ELSE q

\* DeltaSinkSender::send: Ok, or Disconnected when the receiver is gone
sink_send(cfg, delta) == IF cfg.sink = "open" THEN "Ok" ELSE "Disconnected"

\* execute, lines 245-249: with a sink installed the delta is sent to it
forward_sink(q, cfg, delta) ==
    IF delta # NoDelta /\ cfg.sink # "none" /\ sink_send(cfg, delta) = "Ok"
    THEN Append(q, delta)
    ELSE q

sink_failure_surfaces(result, outcome) ==
    IF outcome = "Ok" THEN result ELSE Error("ERR persistence unavailable")

\* execute, lines 247-252: `let _ = sink.send(delta)`, then the command's reply is returned
reply_after_sink(result, outcome) == result

NoCall == [pc |-> "idle", cmd |-> NoCmd, shard |-> 0, before |-> 0, result |-> BulkNil,
           delta |-> NoDelta, outcome |-> "none"]

LocksNothing(call, s) == FALSE

\* execute, line 227: the caller holds the shard's write lock from the
\* command's execution until the delta has been forwarded
Locks(call, s) == call.pc \in {"gossip", "sink"} /\ call.shard = s

\* a command is executed on the replicated state, by the only caller
RExecute(cmd) ==
    /\ rphase = "serving"
    /\ rbudget > 0
    /\ \A c \in Callers : rcall[c].pc \in {"idle", "done"}
    /\ rbudget' = rbudget - 1
    /\ rshards' = replicated_execute(rshards, cmd)
    /\ LET s == IF HasPrimaryKey(cmd) THEN hash_key(get_primary_key(cmd)) ELSE 0
           delta == IF HasPrimaryKey(cmd) THEN returned_delta(rshards[s], rshards'[s])
                    ELSE NoDelta
       IN  /\ gmail' = forward_gossip(gmail, rcfg, delta)
           /\ sinkq' = forward_sink(sinkq, rcfg, delta)
    /\ UNCHANGED <<rcfg, sinkrecv, rcall>>
    /\ UNCHANGED <<rphase, connVars, connHist, shardVars, permits, auxVars>>

\* execute, lines 225-228: caller c takes the write lock of the key's shard
\* and the shard executes the command
RCommit(c, cmd) ==
    /\ rphase = "serving"
    /\ rbudget > 0
    /\ rcall[c].pc \in {"idle", "done"}
    /\ HasPrimaryKey(cmd)
    /\ LET s == hash_key(get_primary_key(cmd)) IN
       /\ \A o \in Callers : ~Locks(rcall[o], s)
       /\ rshards' = [rshards EXCEPT ![s] = shard_execute(@, cmd)]
       /\ rcall' = [rcall EXCEPT ![c] =
                       [pc |-> "gossip", cmd |-> cmd, shard |-> s,
                        before |-> rshards[s].executor[get_primary_key(cmd)],
                        result |-> execute(rshards[s].executor, cmd).resp,
                        delta |-> returned_delta(rshards[s], rshards'[s]),
                        outcome |-> "none"]]
    /\ rbudget' = rbudget - 1
    /\ UNCHANGED <<rphase, rcfg, gmail, sinkq, sinkrecv>>
    /\ UNCHANGED <<connVars, connHist, shardVars, permits, auxVars>>

\* execute, lines 230-243
RGossip(c) ==
    /\ rcall[c].pc = "gossip"
    /\ gmail' = forward_gossip(gmail, rcfg, rcall[c].delta)
    /\ rcall' = [rcall EXCEPT ![c].pc = "sink"]
    /\ UNCHANGED <<rshards, rphase, rbudget, rcfg, sinkq, sinkrecv>>
    /\ UNCHANGED <<connVars, connHist, shardVars, permits, auxVars>>

\* execute, lines 245-252: the delta goes to the sink, the lock is released
\* and the reply returned
RSink(c) ==
    /\ rcall[c].pc = "sink"
    /\ sinkq' = forward_sink(sinkq, rcfg, rcall[c].delta)
    /\ LET sends == rcall[c].delta # NoDelta /\ rcfg.sink # "none"
           outcome == IF sends THEN sink_send(rcfg, rcall[c].delta) ELSE "none"
       IN  rcall' = [rcall EXCEPT
                       ![c].pc = "done",
                       ![c].outcome = outcome,
                       ![c].result = IF sends THEN reply_after_sink(@, outcome) ELSE @]
    /\ UNCHANGED <<rshards, rphase, rbudget, rcfg, gmail, sinkrecv>>
    /\ UNCHANGED <<connVars, connHist, shardVars, permits, auxVars>>

\* execute_global for caller c: each shard is locked in its turn
RGlobal(c, cmd) ==
    /\ rphase = "serving"
    /\ rbudget > 0
    /\ rcall[c].pc \in {"idle", "done"}
    /\ ~HasPrimaryKey(cmd)
    /\ \A o \in Callers : rcall[o].pc \in {"idle", "done"}
    /\ rshards' = execute_global(rshards, cmd)
    /\ rcall' = [rcall EXCEPT ![c] = [NoCall EXCEPT !.pc = "done", !.cmd = cmd]]
    /\ rbudget' = rbudget - 1
    /\ UNCHANGED <<rphase, rcfg, gmail, sinkq, sinkrecv>>
    /\ UNCHANGED <<connVars, connHist, shardVars, permits, auxVars>>

\* DeltaSinkReceiver::try_recv: the oldest delta in the channel, if any
SinkTryRecv ==
    /\ rcfg.sink = "open"
    /\ sinkq # <<>>
    /\ sinkrecv' = Append(sinkrecv, Head(sinkq))
    /\ sinkq' = Tail(sinkq)
    /\ UNCHANGED <<rshards, rphase, rbudget, rcfg, gmail, rcall>>
    /\ UNCHANGED <<connVars, connHist, shardVars, permits, auxVars>>

\* DeltaSinkReceiver::drain: try_recv until the channel is empty
SinkDrain ==
    /\ rcfg.sink = "open"
    /\ sinkrecv' = sinkrecv \o sinkq
    /\ sinkq' = <<>>
    /\ UNCHANGED <<rshards, rphase, rbudget, rcfg, gmail, rcall>>
    /\ UNCHANGED <<connVars, connHist, shardVars, permits, auxVars>>

\* the persistence worker ends: the receiver is dropped with what the channel holds
SinkDropReceiver ==
    /\ rcfg.sink = "open"
    /\ rcfg' = [rcfg EXCEPT !.sink = "closed"]
    /\ sinkq' = <<>>
    /\ UNCHANGED <<rshards, rphase, rbudget, gmail, sinkrecv, rcall>>
    /\ UNCHANGED <<connVars, connHist, shardVars, permits, auxVars>>

FwdInit(enabled, sink) ==
    /\ rcfg = [enabled |-> enabled, sink |-> sink]
    /\ gmail = <<>>
    /\ sinkq = <<>>
    /\ sinkrecv = <<>>
    /\ rcall = [c \in Callers |-> NoCall]

\* the gossip layer hands a batch of remote deltas to the replicated state
ApplyRemoteDeltas(deltas) ==
    /\ rphase = "serving"
    /\ rbudget > 0
    /\ rbudget' = rbudget - 1
    /\ rshards' = apply_remote_deltas(rshards, deltas)
    /\ UNCHANGED <<rphase, fwdVars, connVars, connHist, shardVars, permits, auxVars>>

\* ------------------------------------------------------ executor with TTL

\* SETEX key seconds value
SetEx(key, seconds, value) ==
    [op |-> "SETEX", keys |-> <<key>>, val |-> value, secs |-> seconds]

\* CommandExecutor::new: data, expirations (absolute ms, 0: no TTL), current time
NewExecutor == [data |-> [k \in Keys |-> 0], expirations |-> [k \in Keys |-> 0],
                current_time |-> 0]

\* CommandExecutor::set_time
set_time(ex, t) == [ex EXCEPT !.current_time = t]

\* the expiry of key k has passed: expiry_ms <= now
is_expired(ex, k) == ex.expirations[k] # 0 /\ ex.expirations[k] <= ex.current_time

\* lazy expiry: an expired key is removed before the command looks at it
expire_if_needed(ex, k) ==
    IF is_expired(ex, k)
    THEN [ex EXCEPT !.data[k] = 0, !.expirations[k] = 0]
    ELSE ex

\* CommandExecutor::execute with TTLs: the new executor and the reply
execute_timed(ex, cmd) ==
    LET k == cmd.keys[1]
        e1 == expire_if_needed(ex, k)
    IN
    CASE cmd.op = "SETEX" ->
           [ex |-> [e1 EXCEPT !.data[k] = cmd.val,
                              !.expirations[k] = ex.current_time + cmd.secs * 1000],
            resp |-> SimpleString("OK")]
      [] cmd.op = "SET" ->
           [ex |-> [e1 EXCEPT !.data[k] = cmd.val, !.expirations[k] = 0],
            resp |-> SimpleString("OK")]
      [] cmd.op = "DEL" ->
           [ex |-> [e1 EXCEPT !.data[k] = 0, !.expirations[k] = 0],
            resp |-> execute(e1.data, cmd).resp]
      [] cmd.op = "TTL" ->
           [ex |-> e1,
            resp |-> IF e1.data[k] = 0 THEN Integer(0 - 2)
                     ELSE IF e1.expirations[k] = 0 THEN Integer(0 - 1)
                     ELSE Integer((e1.expirations[k] - e1.current_time) \div 1000)]
      [] OTHER -> [ex |-> e1, resp |-> execute(e1.data, cmd).resp]

\* CommandExecutor::evict_expired_direct(now): the executor without the keys
\* whose expiry is at or before now
evict_expired_direct(ex, t) ==
    [ex EXCEPT !.data = [k \in Keys |-> IF ex.expirations[k] # 0 /\ ex.expirations[k] <= t
                                        THEN 0 ELSE @[k]],
               !.expirations = [k \in Keys |-> IF @[k] # 0 /\ @[k] <= t THEN 0 ELSE @[k]]]

\* the keys evict_expired_direct(now) removes
Evicted(ex, t) == {k \in Keys : ex.data[k] # 0 /\ ex.expirations[k] # 0 /\ ex.expirations[k] <= t}

\* virtual time passes, up to limit seconds
Elapse(limit) ==
    /\ now < limit * 1000
    /\ now' = now + 1000
    /\ UNCHANGED <<srv, shardExec, sweep, tlast, crdtVars, mergeVars, meshVars>>
    /\ UNCHANGED <<connVars, connHist, shardVars, permits, replVars>>

\* --------------------------------------------------- simulated RedisServer

handle_message_stale_time(ex, t, cmd) == execute_timed(ex, cmd)

\* RedisServer::handle_event, lines 52-57: the executor's time is set to the
\* simulation's current time, then the command is executed
handle_message(ex, t, cmd) == execute_timed(set_time(ex, t), cmd)

\* RedisServer::handle_event, the NetworkMessage arm
HandleEvent(cmd) ==
    LET r == handle_message(srv, now, cmd) IN
    /\ srv' = r.ex
    /\ tlast' = [cmd |-> cmd, at |-> now, resp |-> r.resp,
                 had |-> srv.data[cmd.keys[1]], exp |-> srv.expirations[cmd.keys[1]]]
    /\ UNCHANGED <<now, shardExec, sweep, crdtVars, mergeVars, meshVars>>
    /\ UNCHANGED <<connVars, connHist, shardVars, permits, replVars>>

NoEvent == [cmd |-> NoCmd, at |-> 0, resp |-> BulkNil, had |-> 0, exp |-> 0]

\* --------------------------------------- ShardedRedisState and TTL manager

\* ShardedRedisState::execute, the default arm: the key's shard is locked, its
\* executor's time is set and the command is executed
SExecute(cmd) ==
    LET shard_idx == hash_key(cmd.keys[1]) IN
    /\ shardExec' = [shardExec EXCEPT
                        ![shard_idx] = execute_timed(set_time(@, now), cmd).ex]
    /\ UNCHANGED <<now, srv, sweep, tlast, crdtVars, mergeVars, meshVars>>
    /\ UNCHANGED <<connVars, connHist, shardVars, permits, replVars>>

SweepOnlyFirstShard == Cardinality({0})

\* evict_expired_all_shards: `for shard in self.shards.iter()` visits every shard
SweepEnd == NUM_SHARDS

SweeperIdle == [pc |-> "tick", at |-> 0, i |-> 0, total_evicted |-> 0]

\* TtlManagerActor::run: the interval ticks and evict_expired_all_shards
\* reads the virtual time
SweepStart ==
    /\ sweep.pc = "tick"
    /\ sweep' = [pc |-> "evict", at |-> now, i |-> 0, total_evicted |-> 0]
    /\ UNCHANGED <<now, srv, shardExec, tlast, crdtVars, mergeVars, meshVars>>
    /\ UNCHANGED <<connVars, connHist, shardVars, permits, replVars>>

\* evict_expired_all_shards, one turn of its loop: the next shard is locked
\* and its expired keys are evicted; after the last shard the task waits for
\* the next tick
SweepShard ==
    /\ sweep.pc = "evict"
    /\ IF sweep.i < SweepEnd
       THEN /\ shardExec' = [shardExec EXCEPT
                               ![sweep.i] = evict_expired_direct(@, sweep.at)]
            /\ sweep' = [sweep EXCEPT
                           !.i = @ + 1,
                           !.total_evicted =
                               @ + Cardinality(Evicted(shardExec[sweep.i], sweep.at))]
       ELSE /\ sweep' = [sweep EXCEPT !.pc = "tick"]
            /\ UNCHANGED shardExec
    /\ UNCHANGED <<now, srv, tlast, crdtVars, mergeVars, meshVars>>
    /\ UNCHANGED <<connVars, connHist, shardVars, permits, replVars>>

TtlInit ==
    /\ now = 0
    /\ srv = NewExecutor
    /\ shardExec = [s \in Shards |-> NewExecutor]
    /\ sweep = SweeperIdle
    /\ tlast = NoEvent

\* ---------------------------------------------- replicas exchanging deltas

Replicas == {LocalReplica, RemoteReplica}

\* the key the replicas write
K == "a"

\* a client of replica r writes or deletes K: ReplicatedShard::execute runs the
\* command and records the mutation; the delta goes out to the peers
LocalWrite(r, cmd) ==
    /\ nodes[r].time < MaxClock
    /\ Cardinality(emitted) < MaxWrites
    /\ nodes' = [nodes EXCEPT ![r] = shard_execute(@, cmd)]
    /\ emitted' = emitted \cup ({returned_delta(nodes[r], nodes'[r])} \ {NoDelta})
    /\ UNCHANGED <<applied, ttlVars, mergeVars, meshVars>>
    /\ UNCHANGED <<connVars, connHist, shardVars, permits, replVars>>

\* gossip hands replica r a delta, in any order and any number of times
Deliver(r, delta) ==
    /\ nodes[r].time < MaxClock
    /\ nodes' = [nodes EXCEPT ![r] = apply_remote_delta(@, delta)]
    /\ applied' = [applied EXCEPT ![r] = Append(@, delta)]
    /\ UNCHANGED <<emitted, ttlVars, mergeVars, meshVars>>
    /\ UNCHANGED <<connVars, connHist, shardVars, permits, replVars>>

CrdtIdle ==
    /\ nodes = [r \in Replicas |-> NewShard(r)]
    /\ emitted = {}
    /\ applied = [r \in Replicas |-> <<>>]

\* ------------------------------------------------------- merge, applied

NoResult == [kind |-> "none"]

\* the values replicas produce for K: none yet, a write, a delete
MergeValues ==
    {NoValue}
    \cup {ReplicatedValue(r, t, r, FALSE) : t \in 1 .. MaxLamport, r \in Replicas}
    \cup {ReplicatedValue(0, t, r, TRUE) : t \in 1 .. MaxLamport, r \in Replicas}

\* a Lamport tuple names one write: values with the same tuple are the same value
SameWrite(x, y) == (x.time = y.time /\ x.replica = y.replica) => x = y

\* a shard of the local replica whose state for K is the value c
Holding(c) ==
    IF c = NoValue THEN NewShard(LocalReplica)
    ELSE apply_remote_delta(NewShard(LocalReplica), ReplicationDelta(K, c))

\* ReplicatedValue::merge on the values a, b, c in every grouping
Merge ==
    /\ mres' = [kind |-> "merge",
                ab |-> merge(margs[1], margs[2]),
                ba |-> merge(margs[2], margs[1]),
                aa |-> merge(margs[1], margs[1]),
                ab_c |-> merge(merge(margs[1], margs[2]), margs[3]),
                a_bc |-> merge(margs[1], merge(margs[2], margs[3]))]
    /\ UNCHANGED <<margs, ttlVars, crdtVars, meshVars>>
    /\ UNCHANGED <<connVars, connHist, shardVars, permits, replVars>>

\* a shard that holds c applies the deltas a and b: in both orders, a twice,
\* and the sequence a, b a second time
ApplyDeltas ==
    /\ margs[1] # NoValue
    /\ margs[2] # NoValue
    /\ LET da == ReplicationDelta(K, margs[1])
           db == ReplicationDelta(K, margs[2])
           once == apply_remote_delta(Holding(margs[3]), da)
           ab == apply_remote_delta(once, db)
       IN
       mres' = [kind |-> "apply",
                once |-> once,
                twice |-> apply_remote_delta(once, da),
                ab |-> ab,
                ba |-> apply_remote_delta(apply_remote_delta(Holding(margs[3]), db), da),
                replay |-> apply_remote_delta(apply_remote_delta(ab, da), db)]
    /\ UNCHANGED <<margs, ttlVars, crdtVars, meshVars>>
    /\ UNCHANGED <<connVars, connHist, shardVars, permits, replVars>>

MergeIdle ==
    /\ margs = <<NoValue, NoValue, NoValue>>
    /\ mres = NoResult

\* ------------------------------------------------------ consistent hash ring

RingNodes == 1 .. NumNodes

\* positions on the ring: the 64-bit hash space, scaled down
HashSpace == 23
HashStride == 5

\* HashRing::hash_key
ring_hash_key(key) == DefaultHasher(key) % HashSpace

\* HashRing::hash_virtual_node: distinct virtual nodes get distinct positions
hash_virtual_node(node, virtual_index) ==
    ((node * (MaxV + 2) + virtual_index) * HashStride) % HashSpace

VirtualNode(physical_node, virtual_index) ==
    [position |-> hash_virtual_node(physical_node, virtual_index),
     physical_node |-> physical_node, virtual_index |-> virtual_index]

RECURSIVE sort_by_key(_)
\* ring.sort_by_key(|(pos, _)| *pos), on the set of the ring's entries
sort_by_key(entries) ==
    IF entries = {} THEN <<>>
    ELSE LET first == CHOOSE e \in entries : \A o \in entries : e.position <= o.position
         IN  <<first>> \o sort_by_key(entries \ {first})

SeqRange(q) == {q[i] : i \in DOMAIN q}

\* HashRing::add_node
add_node(r, node) ==
    IF node \in SeqRange(r.physical_nodes) THEN r
    ELSE [r EXCEPT
            !.physical_nodes = Append(@, node),
            !.ring = sort_by_key(SeqRange(@)
                        \cup {VirtualNode(node, i) : i \in 0 .. (r.virtual_nodes_per_physical - 1)}),
            !.version = @ + 1]

\* HashRing::remove_node
remove_node(r, node) ==
    [r EXCEPT !.physical_nodes = SelectSeq(@, LAMBDA n : n # node),
              !.ring = SelectSeq(@, LAMBDA e : e.physical_node # node),
              !.version = @ + 1]

RECURSIVE add_nodes(_, _)
add_nodes(r, members) ==
    IF members = <<>> THEN r ELSE add_nodes(add_node(r, Head(members)), Tail(members))

\* HashRing::new
HashRingNew(members, virtual_nodes_per_physical, replication_factor) ==
    add_nodes([ring |-> <<>>, virtual_nodes_per_physical |-> virtual_nodes_per_physical,
               replication_factor |-> replication_factor, physical_nodes |-> <<>>,
               version |-> 0],
              members)

\* binary_search_by_key(&key_pos): Ok(i) at the entry with that position,
\* Err(i) with the insertion point otherwise; start_idx is i, or i % len (0-based)
start_idx(r, key_pos) ==
    IF \E i \in DOMAIN r.ring : r.ring[i].position = key_pos
    THEN (CHOOSE i \in DOMAIN r.ring : r.ring[i].position = key_pos) - 1
    ELSE Cardinality({i \in DOMAIN r.ring : r.ring[i].position < key_pos}) % Len(r.ring)

RECURSIVE walk_clockwise(_, _, _, _, _)
\* the loop of get_replicas_with_rf: unique physical nodes, clockwise from start
walk_clockwise(r, n, start, idx, replicas) ==
    IF Len(replicas) < n /\ Len(replicas) < Len(r.physical_nodes)
    THEN LET vnode == r.ring[(idx % Len(r.ring)) + 1]
             next == IF vnode.physical_node \in SeqRange(replicas) THEN replicas
                     ELSE Append(replicas, vnode.physical_node)
         IN  IF (idx + 1) - start >= Len(r.ring) THEN next
             ELSE walk_clockwise(r, n, start, idx + 1, next)
    ELSE replicas

\* HashRing::get_replicas_with_rf, for a key at position key_pos
get_replicas_at(r, key_pos, rf) ==
    IF r.ring = <<>> THEN <<>>
    ELSE LET n == IF rf < Len(r.physical_nodes) THEN rf ELSE Len(r.physical_nodes)
             start == start_idx(r, key_pos)
         IN  walk_clockwise(r, n, start, start, <<>>)

get_replicas_with_rf(r, key, rf) == get_replicas_at(r, ring_hash_key(key), rf)

\* HashRing::get_replicas
get_replicas(r, key) == get_replicas_with_rf(r, key, r.replication_factor)

get_gossip_targets_with_sender(r, key, sender) == get_replicas(r, key)

\* HashRing::get_gossip_targets
get_gossip_targets(r, key, sender) == SelectSeq(get_replicas(r, key), LAMBDA n : n # sender)

NoQuery == [key_pos |-> 0, rf |-> 0, asked |-> FALSE, replicas |-> <<>>]

\* a node joins the ring
AddNode(node) ==
    /\ ring.version < MaxVersion
    /\ ring' = add_node(ring, node)
    /\ rq' = NoQuery
    /\ UNCHANGED <<gstate, glog, lastVars, ttlVars, crdtVars, mergeVars>>
    /\ UNCHANGED <<connVars, connHist, shardVars, permits, replVars>>

\* a node leaves the ring
RemoveNode(node) ==
    /\ ring.version < MaxVersion
    /\ ring' = remove_node(ring, node)
    /\ rq' = NoQuery
    /\ UNCHANGED <<gstate, glog, lastVars, ttlVars, crdtVars, mergeVars>>
    /\ UNCHANGED <<connVars, connHist, shardVars, permits, replVars>>

\* the replicas of a key are looked up
GetReplicas(key_pos, rf) ==
    /\ ~rq.asked
    /\ rq' = [key_pos |-> key_pos, rf |-> rf, asked |-> TRUE,
              replicas |-> get_replicas_at(ring, key_pos, rf)]
    /\ UNCHANGED <<ring, gstate, glog, lastVars, ttlVars, crdtVars, mergeVars>>
    /\ UNCHANGED <<connVars, connHist, shardVars, permits, replVars>>

RingInit(virtual_nodes_per_physical, replication_factor) ==
    /\ ring = HashRingNew(<<>>, virtual_nodes_per_physical, replication_factor)
    /\ rq = NoQuery

\* ------------------------------------------------------------ gossip actor

\* no router installed
NoRouter == <<>>

\* GossipRouter: the ring, and the keys the adaptive controller holds hot
GossipRouter(r, hot) == [ring |-> r, hot |-> hot]

\* the replication factor of a key: raised by one for a hot key
rf_of(router, key) ==
    IF key \in router.hot THEN router.ring.replication_factor + 1
    ELSE router.ring.replication_factor

\* the target of a message for every peer
Broadcast == 0

RoutedMessage(target, message, id) == [target |-> target, message |-> message, id |-> id]
DeltaMessage(delta) == [t |-> "Delta", delta |-> delta]
Heartbeat == [t |-> "Heartbeat", delta |-> NoDelta]

\* GossipState::new / with_router
GossipStateNew(selective, router) ==
    [outbound |-> <<>>, router |-> router, selective |-> selective, queued |-> 0]

\* GossipState::is_selective
is_selective(st) == st.router # NoRouter /\ st.selective

\* the peers a delta is queued for
queue_targets(st, delta) ==
    IF is_selective(st)
    THEN get_gossip_targets(st.router.ring, delta.key, LocalReplica)
    ELSE <<Broadcast>>

\* one routed message per target is appended to the outbound queue
enqueue(st, targets, message) ==
    [st EXCEPT !.outbound = @ \o [i \in DOMAIN targets |->
                                    RoutedMessage(targets[i], message, st.queued + i)],
               !.queued = @ + Len(targets)]

RECURSIVE state_queue_deltas(_, _)
\* GossipState::queue_deltas
state_queue_deltas(st, deltas) ==
    IF deltas = <<>> THEN st
    ELSE state_queue_deltas(enqueue(st, queue_targets(st, Head(deltas)),
                                    DeltaMessage(Head(deltas))),
                            Tail(deltas))

\* GossipState::queue_heartbeat
state_queue_heartbeat(st) == enqueue(st, <<Broadcast>>, Heartbeat)

drain_keeps_queue(st) == st

\* GossipState::drain_outbound: the queue is taken, an empty one is left
state_drain_outbound(st) == [st EXCEPT !.outbound = <<>>]

\* GossipState::set_router
state_set_router(st, router) == [st EXCEPT !.router = router]

GossipMessage(t, router) == [t |-> t, deltas |-> <<>>, router |-> router]

\* GossipActorHandle::queue_deltas: nothing is sent for an empty batch
GQueueDeltas(deltas) ==
    /\ glog.sent < MaxGossip
    /\ gmail' = IF deltas = <<>> THEN gmail ELSE Append(gmail, QueueDeltas(deltas))
    /\ glog' = [glog EXCEPT !.sent = @ + 1]
    /\ UNCHANGED <<rshards, rphase, rbudget, rcfg, sinkq, sinkrecv, rcall>>
    /\ UNCHANGED <<ring, rq, gstate, lastVars, ttlVars, crdtVars, mergeVars>>
    /\ UNCHANGED <<connVars, connHist, shardVars, permits>>

\* GossipActorHandle::queue_heartbeat, drain_outbound (the request) and set_router
GSend(msg) ==
    /\ glog.sent < MaxGossip
    /\ gmail' = Append(gmail, msg)
    /\ glog' = [glog EXCEPT !.sent = @ + 1]
    /\ UNCHANGED <<rshards, rphase, rbudget, rcfg, sinkq, sinkrecv, rcall>>
    /\ UNCHANGED <<ring, rq, gstate, lastVars, ttlVars, crdtVars, mergeVars>>
    /\ UNCHANGED <<connVars, connHist, shardVars, permits>>

\* GossipActor::run, one turn of the loop: the next message is received and handled
GossipRun ==
    /\ gmail # <<>>
    /\ LET msg == Head(gmail) IN
       /\ gstate' = CASE msg.t = "QueueDeltas" -> state_queue_deltas(gstate, msg.deltas)
                      [] msg.t = "QueueHeartbeat" -> state_queue_heartbeat(gstate)
                      [] msg.t = "DrainOutbound" -> state_drain_outbound(gstate)
                      [] msg.t = "SetRouter" -> state_set_router(gstate, msg.router)
                      [] OTHER -> gstate
       /\ glog' = [glog EXCEPT
                     !.queued = @ \o SubSeq(gstate'.outbound, Len(gstate.outbound) + 1,
                                            Len(gstate'.outbound)),
                     !.drains = IF msg.t = "DrainOutbound"
                                THEN Append(@, gstate.outbound) ELSE @]
    /\ gmail' = Tail(gmail)
    /\ UNCHANGED <<rshards, rphase, rbudget, rcfg, sinkq, sinkrecv, rcall>>
    /\ UNCHANGED <<ring, rq, lastVars, ttlVars, crdtVars, mergeVars>>
    /\ UNCHANGED <<connVars, connHist, shardVars, permits>>

GossipInit(selective, router) ==
    /\ gstate = GossipStateNew(selective, router)
    /\ glog = [sent |-> 0, queued |-> <<>>, drains |-> <<>>]

\* everything but the seven components below, and each of them left alone
baseVars == <<connVars, connHist, shardVars, permits, replVars, ttlVars, crdtVars, mergeVars,
              ring, rq, gstate, glog>>

\* ------------------------------------------------- shard actors and their handles

MaxActorCalls == 4

ActorKinds == {"replicated", "plain"}

ActorCmds == {Cmd("SET", <<"a">>, 1), Cmd("DEL", <<"a">>, 0), Cmd("GET", <<"a">>, 0)}

Unit == SimpleString("()")

ActorMessage(t, from, cmd) == [t |-> t, from |-> from, cmd |-> cmd]

\* what a caller of a handle holds: the method it is in, and once the method
\* has returned, the reply, the deltas and (history) whether the actor ran it and whether
\* the message was queued at all
ActorCall(st, op, resp, deltas, ran) ==
    [st |-> st, op |-> op, resp |-> resp, deltas |-> deltas, ran |-> ran, queued |-> TRUE]

NoActorCall == ActorCall("idle", "none", Unit, <<>>, FALSE)

send_failed_with_prefix(kind) == Error("ERR shard unavailable")

\* the reply of execute when the mailbox send fails:
\* ReplicatedShardHandle::execute and ShardHandle::execute
send_failed(kind) ==
    IF kind = "replicated" THEN Error("ERR shard unavailable") ELSE Error("Shard unavailable")

\* the value the awaiting caller falls back to when the oneshot sender is
\* dropped: unwrap_or_else for execute, unwrap_or_default for the drain
response_failed(kind, op) ==
    CASE op = "Execute" ->
           ActorCall("done", op,
                     IF kind = "replicated" THEN Error("ERR shard response failed")
                     ELSE Error("Shard response failed"), <<>>, FALSE)
      [] OTHER -> ActorCall("done", op, Unit, <<>>, FALSE)

drain_leaves_queue(sh) == sh

\* ShardReplicaState::drain_pending_deltas: the pending deltas are taken
drain_pending_deltas(sh) == [sh EXCEPT !.pending = <<>>]

\* the receiver is dropped: every message still queued is dropped with its
\* oneshot sender, and the callers awaiting them get the fallback value
drop_mailbox(a) ==
    [a EXCEPT !.alive = FALSE,
              !.mailbox = <<>>,
              !.calls = [c \in Callers |->
                           IF \E i \in DOMAIN a.mailbox : a.mailbox[i].from = c
                           THEN response_failed(a.kind, a.calls[c].op)
                           ELSE a.calls[c]]]

SaOthers == <<pserver, adapt, wire, bpool, vtime, locks, baseVars>>

\* a handle method: the message is sent unless the receiver is gone
HandleSend(c, op, cmd) ==
    /\ sa # <<>>
    /\ sa.budget > 0
    /\ sa.calls[c].st # "waiting"
    /\ sa' = IF sa.alive
             THEN [sa EXCEPT !.budget = @ - 1,
                             !.mailbox = Append(@, ActorMessage(op, c, cmd)),
                             !.calls[c] = ActorCall("waiting", op, Unit, <<>>, FALSE)]
             ELSE [sa EXCEPT !.budget = @ - 1,
                             !.calls[c] =
                                [ActorCall("done", op,
                                           IF op = "Execute" THEN send_failed(sa.kind) ELSE Unit,
                                           <<>>, FALSE) EXCEPT !.queued = FALSE]]
    /\ UNCHANGED SaOthers

\* ReplicatedShardHandle::execute, ShardHandle::execute
SaExecute(c, cmd) == sa # <<>> /\ HandleSend(c, "Execute", cmd)

\* ReplicatedShardHandle::drain_pending_deltas
SaDrain(c) == sa # <<>> /\ sa.kind = "replicated" /\ HandleSend(c, "DrainPendingDeltas", NoCmd)

\* ReplicatedShardHandle::shutdown
SaShutdown(c) == sa # <<>> /\ sa.kind = "replicated" /\ HandleSend(c, "Shutdown", NoCmd)

\* one turn of ReplicatedShardActor::run or ShardActor::run
ActorRun ==
    /\ sa # <<>>
    /\ sa.alive
    /\ sa.mailbox # <<>>
    /\ LET msg == Head(sa.mailbox)
           rest == [sa EXCEPT !.mailbox = Tail(@)] IN
       sa' = CASE msg.t = "Execute" ->
                    LET after == IF sa.kind = "replicated"
                                 THEN shard_execute(sa.shard, msg.cmd)
                                 ELSE [sa.shard EXCEPT
                                          !.executor = execute(@, msg.cmd).data]
                        delta == returned_delta(sa.shard, after) IN
                    [rest EXCEPT
                       !.shard = after,
                       !.recorded = IF delta = NoDelta THEN @ ELSE Append(@, delta),
                       !.calls[msg.from] =
                          ActorCall("done", "Execute", execute(sa.shard.executor, msg.cmd).resp,
                                    IF delta = NoDelta THEN <<>> ELSE <<delta>>, TRUE)]
               [] msg.t = "DrainPendingDeltas" ->
                    [rest EXCEPT
                       !.shard = drain_pending_deltas(sa.shard),
                       !.drains = Append(@, sa.shard.pending),
                       !.calls[msg.from] =
                          ActorCall("done", msg.t, Unit, sa.shard.pending, TRUE)]
               [] OTHER ->
                    drop_mailbox([rest EXCEPT
                                    !.calls[msg.from] = ActorCall("done", msg.t, Unit, <<>>, TRUE)])
    /\ UNCHANGED SaOthers

\* the runtime shuts down and drops the actor's task where it awaits recv
ActorDropped ==
    /\ sa # <<>>
    /\ sa.alive
    /\ sa' = drop_mailbox(sa)
    /\ UNCHANGED SaOthers

SaInit(kind) ==
    sa = [kind |-> kind, alive |-> TRUE, mailbox |-> <<>>, shard |-> EmptyShard,
          calls |-> [c \in Callers |-> NoActorCall],
          recorded |-> <<>>, drains |-> <<>>, budget |-> MaxActorCalls]

SaIdle == sa = <<>>
PsIdle == pserver = <<>>
AdaptIdle == adapt = <<>>
WireIdle == wire = <<>>
PoolIdle == bpool = <<>>
VtIdle == vtime = <<>>
LocksIdle == locks = <<>>

\* ------------------------------------------------------- the persistent server

MaxHandlers == 2
MaxServerCmds == 2

Handlers == 1 .. MaxHandlers

\* what the object store holds at startup: nothing, or one segment with one delta
Stores == {<<>>, <<ReplicationDelta("a", ReplicatedValue(1, 1, LocalReplica, FALSE))>>}

\* the outcomes of StreamingIntegration::recover on a store
RecoverOutcomes(store) == {IF store = <<>> THEN "empty" ELSE "data", "error"}

recover_ignores_error(outcome) == "start_workers"

\* main, `integration.recover(&state).await?`: an error leaves main
main_after_recover(outcome) == IF outcome = "error" THEN "exited_err" ELSE "start_workers"

final_without_drain(q) == <<>>

\* PersistenceWorker::run, the shutdown branch: what the final drain pushes
final_drain(q) == q

PsOthers == <<sa, adapt, wire, bpool, vtime, locks, baseVars>>

\* main: recovery, before anything else
PsRecover(outcome) ==
    /\ pserver # <<>>
    /\ pserver.main = "recover"
    /\ outcome \in RecoverOutcomes(pserver.store)
    /\ pserver' = [pserver EXCEPT
                     !.recovery = outcome,
                     !.main = main_after_recover(outcome),
                     !.keyspace = IF outcome = "data"
                                  THEN [k \in Keys |->
                                          IF \E i \in DOMAIN pserver.store :
                                                pserver.store[i].key = k
                                          THEN 1 ELSE 0]
                                  ELSE @]
    /\ UNCHANGED PsOthers

\* main: `integration.start_workers().await?` and set_delta_sink
PsStartWorkers(ok) ==
    /\ pserver # <<>>
    /\ pserver.main = "start_workers"
    /\ pserver' = IF ok
                  THEN [pserver EXCEPT !.main = "bind", !.worker = "top", !.sink = TRUE]
                  ELSE [pserver EXCEPT !.main = "exited_err"]
    /\ UNCHANGED PsOthers

\* main: `TcpListener::bind(&addr).await?`; on an error main returns and the
\* runtime drops the worker
PsBind(ok) ==
    /\ pserver # <<>>
    /\ pserver.main = "bind"
    /\ pserver' = IF ok
                  THEN [pserver EXCEPT !.main = "accept", !.listener = TRUE]
                  ELSE [pserver EXCEPT !.main = "exited_err", !.worker = "dropped"]
    /\ UNCHANGED PsOthers

\* the accept arm of the select: a handler task is spawned
PsAccept ==
    /\ pserver # <<>>
    /\ pserver.main = "accept"
    /\ \E h \in Handlers :
          /\ pserver.handlers[h] = "none"
          /\ \A g \in Handlers : g < h => pserver.handlers[g] # "none"
          /\ pserver' = [pserver EXCEPT !.handlers[h] = "open"]
    /\ UNCHANGED PsOthers

\* the ctrl_c arm of the select: the loop is left
PsSignal ==
    /\ pserver # <<>>
    /\ pserver.main = "accept"
    /\ pserver' = [pserver EXCEPT !.main = "shutdown"]
    /\ UNCHANGED PsOthers

\* handle_connection, one command: state.execute (the delta goes to the sink,
\* a send to a dropped receiver fails silently), then the reply is written
PsHandle(h, key) ==
    /\ pserver # <<>>
    /\ pserver.handlers[h] = "open"
    /\ pserver.main \in {"accept", "shutdown", "joining"}
    /\ pserver.executed < MaxServerCmds
    /\ LET delta == ReplicationDelta(key,
                       ReplicatedValue(1, pserver.executed + 2, LocalReplica, FALSE)) IN
       pserver' = [pserver EXCEPT
                     !.keyspace[key] = 1,
                     !.executed = @ + 1,
                     !.channel = IF pserver.sink /\ pserver.worker \in {"top", "poll", "final"}
                                 THEN Append(@, delta) ELSE @,
                     !.before = IF pserver.sink /\ pserver.worker \in {"top", "poll", "final"}
                                   /\ ~pserver.shutdown
                                THEN Append(@, delta) ELSE @,
                     !.replied = Append(@, delta)]
    /\ UNCHANGED PsOthers

\* the connection reaches EOF and the handler returns
PsClose(h) ==
    /\ pserver # <<>>
    /\ pserver.handlers[h] = "open"
    /\ pserver.main \in {"accept", "shutdown", "joining"}
    /\ pserver' = [pserver EXCEPT !.handlers[h] = "closed"]
    /\ UNCHANGED PsOthers

\* main after the loop: worker_handles.shutdown() sets the workers' flag
\* (PersistenceWorkerHandle::shutdown)
PsShutdownWorkers ==
    /\ pserver # <<>>
    /\ pserver.main = "shutdown"
    /\ pserver' = [pserver EXCEPT !.main = "joining", !.shutdown = TRUE]
    /\ UNCHANGED PsOthers

\* worker_handles.shutdown().await returns once the worker has left run;
\* main returns and the runtime drops the handler tasks
PsJoin ==
    /\ pserver # <<>>
    /\ pserver.main = "joining"
    /\ pserver.worker = "exited"
    /\ pserver' = [pserver EXCEPT !.main = "exited_ok"]
    /\ UNCHANGED PsOthers

\* PersistenceWorker::run, top of the loop: the shutdown flag is loaded
WorkerCheck ==
    /\ pserver # <<>>
    /\ pserver.worker = "top"
    /\ pserver' = [pserver EXCEPT !.worker = IF pserver.shutdown THEN "final" ELSE "poll"]
    /\ UNCHANGED PsOthers

\* run, no shutdown: drain and push, flush if the buffer asks for it, sleep
WorkerPoll(flush) ==
    /\ pserver # <<>>
    /\ pserver.worker = "poll"
    /\ pserver' = [pserver EXCEPT
                     !.worker = "top",
                     !.channel = <<>>,
                     !.pushed = @ \o pserver.channel,
                     !.flushed = IF flush THEN pserver.pushed \o pserver.channel ELSE @]
    /\ UNCHANGED PsOthers

\* run, shutdown seen: final drain, final flush, break (the receiver is dropped)
WorkerFinal ==
    /\ pserver # <<>>
    /\ pserver.worker = "final"
    /\ pserver' = [pserver EXCEPT
                     !.worker = "exited",
                     !.channel = <<>>,
                     !.pushed = @ \o final_drain(pserver.channel),
                     !.flushed = pserver.pushed \o final_drain(pserver.channel),
                     !.final_flush = TRUE]
    /\ UNCHANGED PsOthers

PsInit(store) ==
    pserver = [main |-> "recover", recovery |-> "pending", store |-> store,
               keyspace |-> [k \in Keys |-> 0], listener |-> FALSE, sink |-> FALSE,
               handlers |-> [h \in Handlers |-> "none"], executed |-> 0,
               channel |-> <<>>, worker |-> "none", shutdown |-> FALSE,
               pushed |-> <<>>, flushed |-> <<>>, final_flush |-> FALSE,
               before |-> <<>>, replied |-> <<>>]

\* ------------------------------------------------- the adaptive RF controller

AdaptWindow == 2
HotThreshold == 2
MaxAdaptTime == 4
MaxObserve == 3

base_rf == 3
hot_key_rf == 5

AdaptKeys == {"a", "b"}

\* the observed rate of a key at time t: its accesses inside the sliding
\* window that ends at t
access_rate(acc, t) ==
    Cardinality({i \in DOMAIN acc : acc[i] > t - AdaptWindow /\ acc[i] <= t})

\* periodic cleanup: accesses that have left the window are forgotten
cleanup(acc, t) == SelectSeq(acc, LAMBDA ts : ts > t - AdaptWindow)

demote_at_once(t, hot_at) == TRUE

\* Hot -> Cold needs the window to have fully elapsed since the key was last
\* found at or above the threshold
demote_ready(t, hot_at) == t - hot_at >= AdaptWindow

\* the ring's rf_of(key): a lookup in the controller's hot-key map
adaptive_rf_of(key) == IF adapt.hot[key] THEN hot_key_rf ELSE base_rf

AdaptOthers == <<sa, pserver, wire, bpool, vtime, locks, baseVars>>

\* AdaptiveReplicationManager::observe(key, is_write, timestamp_ms)
Observe(key) ==
    /\ adapt # <<>>
    /\ adapt.budget > 0
    /\ adapt' = [adapt EXCEPT !.budget = @ - 1,
                              !.accesses[key] = Append(@, adapt.now)]
    /\ UNCHANGED AdaptOthers

AdaptTick ==
    /\ adapt # <<>>
    /\ adapt.now < MaxAdaptTime
    /\ adapt' = [adapt EXCEPT !.now = @ + 1]
    /\ UNCHANGED AdaptOthers

\* AdaptiveReplicationManager::force_recalculate(now): promotions, demotions, cleanup
Recalculate ==
    /\ adapt # <<>>
    /\ \A i \in DOMAIN adapt.log : adapt.log[i].t < adapt.now
    /\ LET t == adapt.now
           rate == [k \in AdaptKeys |-> access_rate(adapt.accesses[k], t)] IN
       adapt' = [adapt EXCEPT
                   !.hot = [k \in AdaptKeys |->
                              IF rate[k] >= HotThreshold THEN TRUE
                              ELSE IF adapt.hot[k] /\ demote_ready(t, adapt.hot_at[k]) THEN FALSE
                              ELSE adapt.hot[k]],
                   !.hot_at = [k \in AdaptKeys |->
                                 IF rate[k] >= HotThreshold THEN t ELSE adapt.hot_at[k]],
                   !.accesses = [k \in AdaptKeys |-> cleanup(adapt.accesses[k], t)],
                   !.log = Append(@, [t |-> t, rate |-> rate])]
    /\ UNCHANGED AdaptOthers

AdaptInit ==
    adapt = [now |-> 0, accesses |-> [k \in AdaptKeys |-> <<>>],
             hot |-> [k \in AdaptKeys |-> FALSE], hot_at |-> [k \in AdaptKeys |-> 0],
             log |-> <<>>, budget |-> MaxObserve]

\* ------------------------------------------------------ RESP on the wire

MaxArrayLen == 2

\* bytes are named by one-character strings, "CR" and "LF" for \r and \n
Digits == <<"0", "1", "2", "3", "4", "5", "6", "7", "8", "9">>
CRLF == <<"CR", "LF">>

\* RespValue at the byte level: texts and payloads are byte sequences
Simple(text) == [t |-> "SimpleString", s |-> text, n |-> 0, arr |-> <<>>]
Err(text) == [t |-> "Error", s |-> text, n |-> 0, arr |-> <<>>]
Num(n) == [t |-> "Integer", s |-> <<>>, n |-> n, arr |-> <<>>]
Bulk(payload) == [t |-> "BulkString", s |-> payload, n |-> 0, arr |-> <<>>]
NilBulk == [t |-> "BulkNil", s |-> <<>>, n |-> 0, arr |-> <<>>]
Arr(elems) == [t |-> "Array", s |-> <<>>, n |-> 0, arr |-> elems]
NilArray == [t |-> "ArrayNil", s |-> <<>>, n |-> 0, arr |-> <<>>]

RECURSIVE nat_to_string(_)
nat_to_string(n) ==
    IF n < 10 THEN <<Digits[n + 1]>>
    ELSE nat_to_string(n \div 10) \o <<Digits[(n % 10) + 1]>>

\* i64::to_string, usize::to_string
to_string(n) == IF n < 0 THEN <<"-">> \o nat_to_string(0 - n) ELSE nat_to_string(n)

encode_array_nil_as_empty == <<"*", "0">> \o CRLF

\* encode_resp_into, RespValue::Arr(None)
encode_array_nil == <<"*", "-", "1">> \o CRLF

RECURSIVE encode_all(_)

\* OptimizedConnectionHandler::encode_resp_into
encode_resp_into(value) ==
    CASE value.t = "SimpleString" -> <<"+">> \o value.s \o CRLF
      [] value.t = "Error" -> <<"-">> \o value.s \o CRLF
      [] value.t = "Integer" -> <<":">> \o to_string(value.n) \o CRLF
      [] value.t = "BulkNil" -> <<"$", "-", "1">> \o CRLF
      [] value.t = "BulkString" ->
           <<"$">> \o to_string(Len(value.s)) \o CRLF \o value.s \o CRLF
      [] value.t = "ArrayNil" -> encode_array_nil
      [] OTHER -> <<"*">> \o to_string(Len(value.arr)) \o CRLF \o encode_all(value.arr)

encode_all(elems) ==
    IF elems = <<>> THEN <<>>
    ELSE encode_resp_into(Head(elems)) \o encode_all(Tail(elems))

\* the results of the incremental parser
Parsed(value, rest) == [st |-> "Parsed", value |-> value, rest |-> rest]
Incomplete == [st |-> "Incomplete", value |-> NilBulk, rest |-> <<>>]
ProtocolError == [st |-> "ProtocolError", value |-> NilBulk, rest |-> <<>>]

\* the position of the first CR LF in the bytes, 0 if there is none
find_crlf(bytes) ==
    LET at == {i \in 1 .. Len(bytes) - 1 : bytes[i] = "CR" /\ bytes[i + 1] = "LF"} IN
    IF at = {} THEN 0 ELSE CHOOSE i \in at : \A j \in at : i <= j

DigitValue(b) == CHOOSE d \in 0 .. 9 : Digits[d + 1] = b
IsDigit(b) == \E d \in 0 .. 9 : Digits[d + 1] = b

RECURSIVE parse_nat(_)
parse_nat(line) ==
    IF Len(line) = 1 THEN DigitValue(line[1])
    ELSE parse_nat(SubSeq(line, 1, Len(line) - 1)) * 10 + DigitValue(line[Len(line)])

IsInt(line) ==
    LET digits == IF line # <<>> /\ line[1] = "-" THEN Tail(line) ELSE line IN
    digits # <<>> /\ \A i \in DOMAIN digits : IsDigit(digits[i])

parse_int(line) ==
    IF line[1] = "-" THEN 0 - parse_nat(Tail(line)) ELSE parse_nat(line)

RECURSIVE parse_resp(_)
RECURSIVE parse_elements(_, _, _)

\* RespParser::parse: one value off the front of the bytes
parse_resp(bytes) ==
    LET at == find_crlf(bytes)
        line == SubSeq(bytes, 2, at - 1)
        rest == SubSeq(bytes, at + 2, Len(bytes)) IN
    IF bytes = <<>> \/ (at = 0 /\ bytes[1] \in {"+", "-", ":", "$", "*"}) THEN Incomplete
    ELSE CASE bytes[1] = "+" -> Parsed(Simple(line), rest)
           [] bytes[1] = "-" -> Parsed(Err(line), rest)
           [] bytes[1] = ":" ->
                IF IsInt(line) THEN Parsed(Num(parse_int(line)), rest) ELSE ProtocolError
           [] bytes[1] = "$" ->
                IF ~IsInt(line) THEN ProtocolError
                ELSE LET n == parse_int(line) IN
                     IF n = 0 - 1 THEN Parsed(NilBulk, rest)
                     ELSE IF n < 0 THEN ProtocolError
                     ELSE IF Len(rest) < n + 2 THEN Incomplete
                     ELSE IF SubSeq(rest, n + 1, n + 2) # CRLF THEN ProtocolError
                     ELSE Parsed(Bulk(SubSeq(rest, 1, n)), SubSeq(rest, n + 3, Len(rest)))
           [] bytes[1] = "*" ->
                IF ~IsInt(line) THEN ProtocolError
                ELSE LET n == parse_int(line) IN
                     IF n = 0 - 1 THEN Parsed(NilArray, rest)
                     ELSE IF n < 0 THEN ProtocolError
                     ELSE parse_elements(n, <<>>, rest)
           [] OTHER -> ProtocolError

parse_elements(n, elems, bytes) ==
    IF n = 0 THEN Parsed(Arr(elems), bytes)
    ELSE LET first == parse_resp(bytes) IN
         IF first.st # "Parsed" THEN first
         ELSE parse_elements(n - 1, Append(elems, first.value), first.rest)

\* texts of simple strings and errors (no CR, no LF), and bulk payloads
WireTexts == {<<>>, <<"O", "K">>, <<"E", "R", "R", " ", "x">>}
WireData == {<<>>, <<"a">>, CRLF, <<"a", "CR", "LF", "$", "1">>,
             <<"a", "a", "a", "a", "a", "b", "b", "b", "b", "b">>}
WireInts == {0 - 12, 0 - 1, 0, 7, 10}

WireScalars ==
    {Simple(s) : s \in WireTexts} \cup {Err(s) : s \in WireTexts}
       \cup {Num(n) : n \in WireInts} \cup {Bulk(d) : d \in WireData}
       \cup {NilBulk, NilArray}

WireElems == {Simple(<<"O", "K">>), Num(0 - 1), Bulk(CRLF), NilBulk, NilArray}

ArraysOver(S) == {Arr(a) : a \in UNION {[1 .. n -> S] : n \in 0 .. MaxArrayLen}}

WireInner == {Arr(<<>>), Arr(<<NilBulk>>), Arr(<<Bulk(CRLF), Num(0)>>)}

WireValues == WireScalars \cup ArraysOver(WireElems) \cup ArraysOver(WireInner \cup {NilArray})

\* what follows the value in the buffer
WireTrailing == {<<>>, <<"+">>, <<"$", "1">> \o CRLF \o <<"a">> \o CRLF}

WireOthers == <<sa, pserver, adapt, bpool, vtime, locks, baseVars>>

\* the reply is encoded into the write buffer, in front of what follows it
WireEncode ==
    /\ wire # <<>>
    /\ wire.phase = "value"
    /\ wire' = [wire EXCEPT !.phase = "encoded",
                            !.bytes = encode_resp_into(wire.value) \o wire.trailing]
    /\ UNCHANGED WireOthers

\* RedisClient::handle_event: the payload is parsed
WireParse ==
    /\ wire # <<>>
    /\ wire.phase = "encoded"
    /\ wire' = [wire EXCEPT !.phase = "parsed", !.result = parse_resp(wire.bytes)]
    /\ UNCHANGED WireOthers

WireInit(value, trailing) ==
    wire = [phase |-> "value", value |-> value, trailing |-> trailing, bytes |-> <<>>,
            result |-> Incomplete]

\* ------------------------------------------------------------ the buffer pool

PoolSize == 2
BufCapacity == 2
MaxPoolRounds == 2

PoolConns == 1 .. 2

\* a BytesMut: its length and its capacity
BytesMut(len, cap) == [len |-> len, cap |-> cap]

\* BytesMut::with_capacity
with_capacity(cap) == BytesMut(0, cap)

\* BufferPoolAsync::new(size, buffer_capacity)
BufferPoolNew == [i \in 1 .. PoolSize |-> with_capacity(BufCapacity)]

\* BufferPoolAsync::acquire: the head of the queue, or a fresh buffer
acquire(pool) == IF pool # <<>> THEN Head(pool) ELSE with_capacity(BufCapacity)
after_acquire(pool) == IF pool # <<>> THEN Tail(pool) ELSE pool

release_any(pool, buf) == Append(pool, buf)

\* BufferPoolAsync::release: the buffer is cleared and pushed unless it has
\* grown beyond twice the nominal capacity; a push to a full queue fails
release(pool, buf) ==
    IF buf.cap <= BufCapacity * 2 /\ Len(pool) < PoolSize
    THEN Append(pool, [buf EXCEPT !.len = 0])
    ELSE pool

PoolOthers == <<sa, pserver, adapt, wire, vtime, locks, baseVars>>

\* OptimizedConnectionHandler::new acquires the read buffer, then the write buffer
PoolAcquire(c) ==
    /\ bpool # <<>>
    /\ bpool.phase[c] = "new"
    /\ LET buf == acquire(bpool.pool)
           held == Append(bpool.held[c], buf) IN
       bpool' = [bpool EXCEPT
                   !.pool = after_acquire(@),
                   !.held[c] = held,
                   !.acquired[c] = buf,
                   !.fresh = @ \/ bpool.pool = <<>>,
                   !.phase[c] = IF Len(held) = 2 THEN "run" ELSE "new"]
    /\ UNCHANGED PoolOthers

\* run: bytes are appended to a buffer, which grows when they do not fit
PoolUse(c, i, len) ==
    /\ bpool # <<>>
    /\ bpool.phase[c] = "run"
    /\ bpool.held[c][i].len < len
    /\ bpool' = [bpool EXCEPT
                   !.held[c][i] = BytesMut(len, IF len > @.cap THEN len ELSE @.cap)]
    /\ UNCHANGED PoolOthers

\* run leaves its loop
PoolLeave(c) ==
    /\ bpool # <<>>
    /\ bpool.phase[c] = "run"
    /\ bpool' = [bpool EXCEPT !.phase[c] = "release"]
    /\ UNCHANGED PoolOthers

\* run, after the loop: the read buffer is released, then the write buffer
PoolRelease(c) ==
    /\ bpool # <<>>
    /\ bpool.phase[c] = "release"
    /\ LET left == Tail(bpool.held[c]) IN
       bpool' = [bpool EXCEPT
                   !.pool = release(@, Head(bpool.held[c])),
                   !.held[c] = left,
                   !.rounds[c] = IF left = <<>> THEN @ + 1 ELSE @,
                   !.phase[c] = IF left # <<>> THEN "release"
                                ELSE IF bpool.rounds[c] + 1 < MaxPoolRounds THEN "new"
                                ELSE "closed"]
    /\ UNCHANGED PoolOthers

PoolInit ==
    bpool = [pool |-> BufferPoolNew,
             held |-> [c \in PoolConns |-> <<>>],
             phase |-> [c \in PoolConns |-> "new"],
             rounds |-> [c \in PoolConns |-> 0],
             acquired |-> [c \in PoolConns |-> with_capacity(BufCapacity)],
             fresh |-> FALSE]

\* -------------------------------------------- virtual time at a shard actor

MaxVtClock == 2
MaxVtCmds == 3

VtConns == 1 .. 2

VtCmds == {SetEx("a", 1, 1), Cmd("GET", <<"a">>, 0) @@ [secs |-> 0],
           Cmd("GET", <<"b">>, 0) @@ [secs |-> 0]}

\* ShardCommand {cmd, virtual_time, response_tx}
TimedShardCommand(from, cmd, virtual_time) ==
    [from |-> from, cmd |-> cmd, virtual_time |-> virtual_time]

\* ShardedActorState::get_current_virtual_time: milliseconds since start
get_current_virtual_time == vtime.clock * 1000

VtOthers == <<sa, pserver, adapt, wire, bpool, locks, baseVars>>

\* ShardedActorState::execute, first line: the connection reads the clock
VtReadClock(c, cmd) ==
    /\ vtime # <<>>
    /\ vtime.budget > 0
    /\ vtime.conns[c].st = "idle"
    /\ vtime' = [vtime EXCEPT
                   !.budget = @ - 1,
                   !.conns[c] = [st |-> "read",
                                 msg |-> TimedShardCommand(c, cmd, get_current_virtual_time)]]
    /\ UNCHANGED VtOthers

\* ShardHandle::execute: the command, with the time read, joins the mailbox
VtSend(c) ==
    /\ vtime # <<>>
    /\ vtime.conns[c].st = "read"
    /\ vtime' = [vtime EXCEPT !.conns[c].st = "sent",
                              !.mailbox = Append(@, vtime.conns[c].msg)]
    /\ UNCHANGED VtOthers

\* ShardActor::run, one message: set_time, execute, reply
VtRun ==
    /\ vtime # <<>>
    /\ vtime.mailbox # <<>>
    /\ LET shard_cmd == Head(vtime.mailbox)
           timed == set_time(vtime.executor, shard_cmd.virtual_time)
           done == execute_timed(timed, shard_cmd.cmd)
           k == shard_cmd.cmd.keys[1] IN
       vtime' = [vtime EXCEPT
                   !.mailbox = Tail(@),
                   !.executor = done.ex,
                   !.times = Append(@, shard_cmd.virtual_time),
                   !.conns[shard_cmd.from].st = "idle",
                   !.stale = @ \/ (k \in vtime.expired /\ shard_cmd.cmd.op = "GET"
                                     /\ done.resp # BulkNil),
                   !.expired = ({x \in Keys : is_expired(timed, x)} \cup @)
                                  \ (IF shard_cmd.cmd.op = "SETEX" THEN {k} ELSE {})]
    /\ UNCHANGED VtOthers

\* the wall clock advances
VtTick ==
    /\ vtime # <<>>
    /\ vtime.clock < MaxVtClock
    /\ vtime' = [vtime EXCEPT !.clock = @ + 1]
    /\ UNCHANGED VtOthers

VtInit ==
    vtime = [clock |-> 0, executor |-> NewExecutor, mailbox |-> <<>>,
             conns |-> [c \in VtConns |-> [st |-> "idle", msg |-> TimedShardCommand(c, NoCmd @@ [secs |-> 0], 0)]],
             times |-> <<>>, expired |-> {}, stale |-> FALSE, budget |-> MaxVtCmds]

\* ------------------------------------- the locks of ReplicatedShardedState

LockShards == 2
MaxLockCalls == 3

LockIds == 0 .. (LockShards - 1)

\* one turn of a method's loop: the shard lock it takes (-1: none) and its
\* mode, and whether the gossip-state lock is taken inside it
LockItem(l, mode, gossip) == [l |-> l, mode |-> mode, gossip |-> gossip]

EachShard(mode) == [i \in 1 .. LockShards |-> LockItem(i - 1, mode, FALSE)]

\* the shard locks a method takes, in the order its code takes them
LockPlan(method) ==
    CASE method = "execute" -> <<LockItem(LockShards - 1, "write", TRUE)>>
      [] method = "execute readonly" -> <<LockItem(0, "write", FALSE)>>
      [] method = "execute_global FLUSHDB" -> EachShard("write")
      [] method = "execute_global MSET" ->
           <<LockItem(LockShards - 1, "write", FALSE), LockItem(0, "write", FALSE)>>
      [] method = "execute_global MGET" ->
           <<LockItem(LockShards - 1, "read", FALSE), LockItem(0, "read", FALSE)>>
      [] method = "apply_remote_deltas" ->
           <<LockItem(LockShards - 1, "write", FALSE), LockItem(0, "write", FALSE),
             LockItem(0, "write", FALSE)>>
      [] method = "collect_pending_deltas" -> EachShard("write")
      [] method = "evict_expired_all_shards" -> EachShard("write")
      [] method = "snapshot_state" -> EachShard("read")
      [] OTHER -> <<LockItem(0 - 1, "write", TRUE)>>

\* the methods, and the gossip loop that takes the gossip-state lock through
\* get_gossip_state
LockMethods == {"execute", "execute readonly", "execute_global FLUSHDB", "execute_global MSET",
                "execute_global MGET", "apply_remote_deltas", "collect_pending_deltas",
                "evict_expired_all_shards", "snapshot_state", "gossip loop"}

LockIdleCall == [m |-> "idle", i |-> 0, held |-> {}, has |-> FALSE, g |-> FALSE, gdone |-> FALSE]

guard_outlives_iteration(held, item) == held

\* the guard is a local of the loop body: it is dropped when the turn ends
end_of_iteration(held, item) == held \ {item}

LockItemOf(c) == LockPlan(locks.call[c].m)[locks.call[c].i]

\* parking_lot RwLock: a writer excludes everyone, a reader excludes writers
LockFree(c, item) ==
    \A d \in Callers \ {c} : \A h \in locks.call[d].held :
       h.l = item.l => (h.mode = "read" /\ item.mode = "read")

LockOthers == <<sa, pserver, adapt, wire, bpool, vtime, baseVars>>

\* a caller enters a method
LockCall(c, method) ==
    /\ locks # <<>>
    /\ locks.budget > 0
    /\ locks.call[c].m = "idle"
    /\ locks' = [locks EXCEPT !.budget = @ - 1,
                              !.call[c] = [LockIdleCall EXCEPT !.m = method, !.i = 1]]
    /\ UNCHANGED LockOthers

\* shard.write() or shard.read() returns
LockAcquire(c) ==
    /\ locks # <<>>
    /\ locks.call[c].m # "idle"
    /\ ~locks.call[c].has
    /\ LockItemOf(c).l >= 0
    /\ LockFree(c, LockItemOf(c))
    /\ locks' = [locks EXCEPT !.call[c].has = TRUE,
                              !.call[c].held = @ \cup {LockItemOf(c)}]
    /\ UNCHANGED LockOthers

\* gossip_state.write() returns, inside the turn
GossipAcquire(c) ==
    /\ locks # <<>>
    /\ locks.call[c].m # "idle"
    /\ LockItemOf(c).gossip
    /\ locks.call[c].has \/ LockItemOf(c).l < 0
    /\ ~locks.call[c].g /\ ~locks.call[c].gdone
    /\ \A d \in Callers : ~locks.call[d].g
    /\ locks' = [locks EXCEPT !.call[c].g = TRUE]
    /\ UNCHANGED LockOthers

\* the gossip guard is dropped at the end of its match arm
GossipRelease(c) ==
    /\ locks # <<>>
    /\ locks.call[c].g
    /\ locks' = [locks EXCEPT !.call[c].g = FALSE, !.call[c].gdone = TRUE]
    /\ UNCHANGED LockOthers

\* the turn ends; after the last one the method returns and holds nothing
LockRelease(c) ==
    /\ locks # <<>>
    /\ locks.call[c].m # "idle"
    /\ locks.call[c].has \/ LockItemOf(c).l < 0
    /\ LockItemOf(c).gossip => locks.call[c].gdone
    /\ locks' = [locks EXCEPT
                   !.call[c] =
                      IF locks.call[c].i = Len(LockPlan(locks.call[c].m))
                      THEN LockIdleCall
                      ELSE [@ EXCEPT !.i = @ + 1, !.has = FALSE, !.gdone = FALSE,
                                     !.held = end_of_iteration(@, LockItemOf(c))]]
    /\ UNCHANGED LockOthers

LockStep(c) == LockAcquire(c) \/ GossipAcquire(c) \/ GossipRelease(c) \/ LockRelease(c)

LocksInit ==
    locks = [call |-> [c \in Callers |-> LockIdleCall], budget |-> MaxLockCalls]


LastIdle == SaIdle /\ PsIdle /\ AdaptIdle /\ WireIdle /\ PoolIdle /\ VtIdle /\ LocksIdle

MeshIdle == RingInit(1, 1) /\ GossipInit(FALSE, NoRouter) /\ LastIdle

AuxInit == TtlInit /\ CrdtIdle /\ MergeIdle /\ MeshIdle

\* ------------------------------------------------------------------- specs

ReplStart(phase, n) ==
    /\ rshards = [s \in Shards |-> EmptyShard]
    /\ rphase = phase
    /\ rbudget = n

ReplInit(phase, n) == ReplStart(phase, n) /\ FwdInit(FALSE, "none")

ConnInit(running, n) ==
    /\ pc = [c \in Conns |-> IF c \in running THEN "read" ELSE "none"]
    /\ buffer = [c \in Conns |-> <<>>]
    /\ write_buffer = [c \in Conns |-> <<>>]
    /\ cur = [c \in Conns |-> Idle]
    /\ reply = [c \in Conns |-> NoReply]
    /\ sent = [c \in Conns |-> <<>>]
    /\ budget = [c \in Conns |-> n]
    /\ permits = MaxConnections - Cardinality(running)
    /\ mailbox = [s \in Shards |-> <<>>]
    /\ data = [s \in Shards |-> [k \in Keys |-> 0]]
    /\ stream = [c \in Conns |-> <<>>]
    /\ eof = [c \in Conns |-> FALSE]
    /\ parsed = [c \in Conns |-> <<>>]
    /\ perr = [c \in Conns |-> 0]
    /\ ovf = [c \in Conns |-> 0]
    /\ batchStart = [c \in Conns |-> 0]
    /\ lastAck = [c \in Conns |-> [k \in Keys |-> 0]]
    /\ sendLog = [s \in Shards |-> <<>>]
    /\ applyLog = [s \in Shards |-> <<>>]
    /\ kver = [s \in Shards |-> [k \in Keys |-> 0]]

\* a server on the sharded actor state: the replicated state is not in use
InitWith(running, n) == ConnInit(running, n) /\ ReplInit("off", 0) /\ AuxInit

Frame(r) == <<Hd(r), Tl>>

\* two clients that send whole requests on the same keys
Requests(c) ==
    {Cmd("SET", <<"a">>, c), Cmd("GET", <<"a">>, 0), Cmd("DEL", <<"a">>, 0),
     Cmd("SET", <<"b">>, c)}

Init == InitWith({1, 2}, MaxInput)

Next ==
    \/ \E c \in Conns : \E r \in Requests(c) : Read(c, Frame(r))
    \/ \E c \in Conns : Resume(c)
    \/ \E c \in Conns : Disconnect(c)
    \/ \E s \in Shards : ShardStep(s)

Spec == Init /\ [][Next]_vars

\* key routing: a server on the sharded actor state with one client that sends
\* single-key and multi-key commands, or a replicated state that recovers a
\* checkpoint and then executes commands and applies remote deltas
RouteRequests ==
    {Cmd("MSET", <<"a", "c">>, 1), Cmd("MGET", <<"a", "c">>, 0),
     Cmd("EXISTS", <<"c", "a">>, 0), Cmd("SET", <<"b">>, 2), Cmd("DEL", <<"a">>, 0)}

RemoteValues ==
    {ReplicatedValue(2, t, RemoteReplica, FALSE) : t \in {1, 3}}
        \cup {ReplicatedValue(0, 2, RemoteReplica, TRUE)}

RemoteDeltas == {ReplicationDelta(k, v) : k \in {"a", "c"}, v \in RemoteValues}

DeltaBatches ==
    {<<d>> : d \in RemoteDeltas}
        \cup {<<d, e>> : d \in {x \in RemoteDeltas : x.key = "a"},
                         e \in {x \in RemoteDeltas : x.key = "c"}}

Checkpoints ==
    UNION {[ks -> {ReplicatedValue(1, 1, LocalReplica, FALSE),
                   ReplicatedValue(0, 1, LocalReplica, TRUE)}] : ks \in SUBSET {"b", "c"}}

InitRoute ==
    \/ InitWith({1}, MaxInput)
    \/ ConnInit({}, 0) /\ ReplInit("boot", MaxInput) /\ AuxInit

NextRoute ==
    \/ \E r \in RouteRequests : Read(1, Frame(r))
    \/ Resume(1)
    \/ \E s \in Shards : ShardStep(s)
    \/ \E cp \in Checkpoints : \E ds \in {<<>>} \cup DeltaBatches : ApplyRecoveredState(cp, ds)
    \/ \E r \in RouteRequests : RExecute(r)
    \/ \E ds \in DeltaBatches : ApplyRemoteDeltas(ds)

SpecRoute == InitRoute /\ [][NextRoute]_vars

\* every sequence of 1 .. n fragments of an alphabet: what one read may return
Packets(alphabet, n) == UNION {[1 .. k -> alphabet] : k \in 1 .. n}

\* one client whose byte stream is cut into reads at arbitrary places
PipeRequests == {Cmd("PING", <<>>, 0), Cmd("SET", <<"a">>, 1), Cmd("GET", <<"c">>, 0)}

PipeAlphabet == {Hd(r) : r \in PipeRequests} \cup {Tl}

InitPipe == InitWith({1}, MaxInput)

NextPipe ==
    \/ \E p \in Packets(PipeAlphabet, MaxInput) : Read(1, p)
    \/ Resume(1)
    \/ Disconnect(1)
    \/ \E s \in Shards : ShardStep(s)

SpecPipe == InitPipe /\ [][NextPipe]_vars

\* one client that mixes good requests, requests that fail at command level
\* and malformed input
ErrUnits ==
    {Frame(Cmd("SET", <<"a">>, 1)), Frame(Cmd("LLEN", <<"a">>, 0)),
     Frame(Cmd("FOO", <<>>, 0)), Frame(Cmd("GET", <<>>, 0)),
     <<Bad>>, <<Hd(Cmd("SET", <<"a">>, 1)), Bad>>}

ErrPackets == ErrUnits \cup {u \o v : u \in ErrUnits, v \in ErrUnits}

InitErr == InitWith({1}, MaxInput + 2)

NextErr ==
    \/ \E p \in ErrPackets : Read(1, p)
    \/ Resume(1)
    \/ Disconnect(1)
    \/ \E s \in Shards : ShardStep(s)

SpecErr == InitErr /\ [][NextErr]_vars

\* one client that sends a frame far larger than one read
InitBuf == InitWith({1}, BufInput)

NextBuf ==
    \/ Read(1, <<HdBig(Cmd("SET", <<"a">>, 1))>>)
    \/ buffer[1] # <<>> /\ Read(1, <<Body>>)
    \/ Read(1, <<Tl>>)
    \/ Resume(1)
    \/ Disconnect(1)
    \/ \E s \in Shards : ShardStep(s)

SpecBuf == InitBuf /\ [][NextBuf]_vars

\* the listener: more clients connect than there are permits
InitSrv == InitWith({}, 2)

NextSrv ==
    \/ \E c \in Conns : Accept(c)
    \/ \E c \in Conns : Acquire(c)
    \/ \E c \in Conns : Read(c, Frame(Cmd("SET", <<"a">>, c)))
    \/ \E c \in Conns : Resume(c)
    \/ \E c \in Conns : Disconnect(c)
    \/ \E s \in Shards : ShardStep(s)

SpecSrv == InitSrv /\ [][NextSrv]_vars

\* two clients send multi-key commands on keys of different shards
MultiRequests(c) ==
    {Cmd("MSET", <<"a", "c">>, c), Cmd("MGET", <<"a", "c">>, 0), Cmd("EXISTS", <<"a", "c">>, 0)}
InitMulti == InitWith({1, 2}, MaxInput)
NextMulti ==
    \/ \E c \in Conns : \E r \in MultiRequests(c) : Read(c, Frame(r))
    \/ \E c \in Conns : Resume(c)
    \/ \E c \in Conns : Disconnect(c)
    \/ \E s \in Shards : ShardStep(s)
SpecMulti == InitMulti /\ [][NextMulti]_vars

\* two callers of the replicated state, with and without replication and sink
FwdRequests(c) ==
    {Cmd("SET", <<"a">>, c), Cmd("SETNX", <<"a">>, 2), Cmd("INCR", <<"a">>, 0),
     Cmd("DEL", <<"a">>, 0), Cmd("GET", <<"a">>, 0), Cmd("TTL", <<"a">>, 0),
     Cmd("SET", <<"c">>, c)}
GlobalRequests ==
    {Cmd("MSET", <<"a", "c">>, 1), Cmd("MGET", <<"a", "c">>, 0), Cmd("EXISTS", <<"a", "c">>, 0),
     Cmd("PING", <<>>, 0), Cmd("FLUSHDB", <<>>, 0), Cmd("FLUSHALL", <<>>, 0),
     Cmd("KEYS", <<>>, 0), Cmd("INFO", <<>>, 0)}
InitFwd ==
    /\ ConnInit({}, 0)
    /\ ReplStart("serving", MaxCalls)
    /\ \E enabled \in BOOLEAN : \E sink \in {"none", "open"} : FwdInit(enabled, sink)
    /\ AuxInit
NextFwd ==
    \/ \E c \in Callers : \E cmd \in FwdRequests(c) : RCommit(c, cmd)
    \/ \E c \in Callers : RGossip(c)
    \/ \E c \in Callers : RSink(c)
    \/ \E c \in Callers : \E cmd \in GlobalRequests : RGlobal(c, cmd)
    \/ SinkTryRecv
    \/ SinkDrain
    \/ SinkDropReceiver
SpecFwd == InitFwd /\ [][NextFwd]_vars

\* nothing but the component under study runs
InitIdle == ConnInit({}, 0) /\ ReplInit("off", 0)

\* the simulated server: commands with and without TTL arrive as virtual time passes
SimRequests ==
    UNION {{SetEx(k, 1, 1), SetEx(k, 5, 1), Cmd("SET", <<k>>, 2), Cmd("GET", <<k>>, 0),
            Cmd("TTL", <<k>>, 0), Cmd("EXISTS", <<k>>, 0), Cmd("DEL", <<k>>, 0),
            Cmd("LLEN", <<k>>, 0)} : k \in {"a"}}
InitSim == InitIdle /\ AuxInit
NextSim ==
    \/ Elapse(MaxTime)
    \/ \E cmd \in SimRequests : HandleEvent(cmd)
SpecSim == InitSim /\ [][NextSim]_vars

\* the sharded state with its TTL manager: keys with a short TTL, a long TTL
\* and no TTL are written while the sweeper, a task of its own, runs
SweepRequests == {SetEx("a", 1, 1), SetEx("c", 5, 1), Cmd("SET", <<"b">>, 2)}
InitSweep == InitIdle /\ AuxInit
NextSweep ==
    \/ Elapse(SweepTime)
    \/ \E cmd \in SweepRequests : SExecute(cmd)
    \/ SweepStart
    \/ SweepShard
\* replicas write and delete one key and gossip the deltas
ReplWrites(r) == {Cmd("SET", <<K>>, r), Cmd("DEL", <<K>>, 0)}
InitRepl == InitIdle /\ AuxInit
NextRepl ==
    \/ \E r \in Replicas : \E cmd \in ReplWrites(r) : LocalWrite(r, cmd)
    \/ \E r \in Replicas : \E delta \in emitted : Deliver(r, delta)
SpecRepl == InitRepl /\ [][NextRepl]_vars

\* merge on every triple of values the replicas can produce
InitMerge ==
    /\ InitIdle /\ TtlInit /\ CrdtIdle /\ MeshIdle
    /\ margs \in {t \in MergeValues \X MergeValues \X MergeValues :
                     SameWrite(t[1], t[2]) /\ SameWrite(t[1], t[3]) /\ SameWrite(t[2], t[3])}
    /\ mres = NoResult
NextMerge ==
    \/ Merge
    \/ ApplyDeltas
SpecMerge == InitMerge /\ [][NextMerge]_vars

SpecSweep == InitSweep /\ [][NextSweep]_vars /\ WF_vars(SweepStart) /\ WF_vars(SweepShard)

\* ------------------------------------------------------------------ claims

IsPrefix(a, b) == Len(a) <= Len(b) /\ a = SubSeq(b, 1, Len(a))

MailboxIds(s) == [i \in 1 .. Len(mailbox[s]) |-> mailbox[s][i].id]

\* the messages of one caller appear in log in the order the caller sent them
CallerOrder(log) ==
    \A i, j \in 1 .. Len(log) :
        (i < j /\ log[i][1] = log[j][1]) =>
            \/ log[i][2] < log[j][2]
            \/ (log[i][2] = log[j][2] /\ log[i][3] < log[j][3])

\* C1: every shard applies its mailbox in FIFO order, one command at a time:
\* the commands applied so far are exactly the first commands enqueued, in the
\* order they were enqueued, the rest are still in the mailbox in that order,
\* and the commands of one caller are applied in the caller's send order.
C1_ShardFifo ==
    \A s \in Shards :
        /\ IsPrefix(applyLog[s], sendLog[s])
        /\ sendLog[s] = applyLog[s] \o MailboxIds(s)
        /\ CallerOrder(applyLog[s])

\* C1 witness: a shard has applied a command while the commands of two callers
\* wait in its mailbox
C1_Witness ==
    \E s \in Shards :
        /\ Len(mailbox[s]) >= 2
        /\ mailbox[s][1].tx # mailbox[s][2].tx
        /\ applyLog[s] # <<>>

\* the value left by the write at position n of shard s's apply order
ValueOfWrite(s, n) ==
    IF n = 0 THEN BulkNil
    ELSE LET id == applyLog[s][n]
             r == parsed[id[1]][id[2]]
         IN  IF r.op \in {"SET", "MSET"} THEN BulkString(r.val) ELSE BulkNil

\* C3: a GET of K on a connection returns the state of K at a point of the
\* shard's order that is not before the connection's last acknowledged
\* single-key write to K: that write's value or the value of a later write.
C3_ReadYourWrites ==
    \A c \in Conns :
        (pc[c] = "await" /\ reply[c].full /\ cur[c].cmd.op = "GET") =>
            LET k == cur[c].cmd.keys[1] IN
            /\ reply[c].ver >= lastAck[c][k]
            /\ reply[c].resp = ValueOfWrite(hash_key(k), reply[c].ver)

\* C3 witness: a GET is answered with the value of another connection's write
\* that was applied after the connection's own acknowledged write
C3_Witness ==
    \E c \in Conns :
        /\ pc[c] = "await" /\ reply[c].full /\ cur[c].cmd.op = "GET"
        /\ lastAck[c][cur[c].cmd.keys[1]] > 0
        /\ reply[c].ver > lastAck[c][cur[c].cmd.keys[1]]
        /\ reply[c].resp.t = "BulkString"

\* shard s holds key k, or has a command on k in its mailbox
Holds(s, k) ==
    \/ data[s][k] # 0
    \/ \E i \in DOMAIN mailbox[s] : \E j \in DOMAIN mailbox[s][i].cmd.keys :
           mailbox[s][i].cmd.keys[j] = k
    \/ rshards[s].executor[k] # 0
    \/ rshards[s].replicated_keys[k] # NoValue

\* C2: every operation on key K (single-key commands, the sub-commands of
\* MGET, MSET and EXISTS, remote deltas, recovery) goes to the shard
\* hash(K) mod NUM_SHARDS, so K is held by that shard or by none.
C2_KeyOwnedByOneShard ==
    \A k \in Keys : \A s \in Shards :
        Holds(s, k) => s = DefaultHasher(k) % NUM_SHARDS

\* C2 witness: an MSET has stored its two keys in two different shards, each
\* the shard of the key's hash
C2_Witness ==
    /\ data[3]["a"] = 1 /\ data[8]["c"] = 1
    /\ \E c \in Conns : \E i \in DOMAIN parsed[c] : parsed[c][i].op = "MSET"

\* ------------------------------------------------- C4 .. C10: the handler

\* every reply the handler has produced for connection c, in order
Replies(c) == Flat(sent[c]) \o write_buffer[c]

IsSolicited(r) == r.id > 0

\* the replies to commands among the replies rs
Solicited(rs) == SelectSeq(rs, IsSolicited)

RECURSIVE FramesOf(_)
\* the requests a byte stream holds, up to its first incomplete or malformed frame
FramesOf(b) ==
    LET p == parse(b) IN
    IF p.kind = "Some" THEN <<p.value>> \o FramesOf(p.rest) ELSE <<>>

RECURSIVE Remainder(_)
\* what follows the complete frames of a byte stream
Remainder(b) ==
    LET p == parse(b) IN
    IF p.kind = "Some" THEN Remainder(p.rest) ELSE b

\* the stream is a sequence of complete frames and at most an incomplete one
WellFormed(b) == parse(Remainder(b)).kind = "None"

\* the shard messages sent for request i of connection c
Dispatches(c, i) ==
    UNION {{<<s, j>> : j \in {n \in DOMAIN sendLog[s] :
                                sendLog[s][n][1] = c /\ sendLog[s][n][2] = i}} :
           s \in Shards}

\* C4: the replies of a connection are in the order of its commands, one
\* reply per command, and the replies of the commands of one read are written
\* together, once the whole batch has been dispatched: while a command of the
\* batch waits for its shard, no reply of the batch has been written.
C4_ReplyOrder ==
    \A c \in Conns :
        LET S == Solicited(Replies(c))
            answered == IF pc[c] = "await" THEN Len(parsed[c]) - 1 ELSE Len(parsed[c])
            out == Flat(sent[c])
        IN
        /\ Len(S) = answered
        /\ \A i \in 1 .. Len(S) : S[i].id = i
        /\ pc[c] = "await" => \A i \in 1 .. Len(out) : out[i].id <= batchStart[c]
        /\ pc[c] # "await" => write_buffer[c] = <<>>

\* C4 witness: one read carried two commands for different shards, and their
\* two replies were written as one batch
C4_Witness ==
    \E c \in Conns :
        /\ Len(sent[c]) = 1 /\ Len(sent[c][1]) = 2 /\ Len(stream[c]) = 1
        /\ Len(parsed[c]) = 2 /\ parsed[c][1].op = "SET" /\ parsed[c][2].op = "GET"
        /\ applyLog[hash_key("a")] # <<>> /\ applyLog[hash_key("c")] # <<>>

\* C7: a command split over several reads: its prefix stays in the read
\* buffer, no reply and no error is produced for it, and it is executed exactly
\* once, when its last bytes have arrived.
C7_SplitCommand ==
    \A c \in Conns :
        LET bytes == Flat(stream[c]) IN
        /\ \A i \in 1 .. Len(parsed[c]) :
               parsed[c][i].op \in {"SET", "GET"} => Cardinality(Dispatches(c, i)) = 1
        /\ WellFormed(bytes) =>
               /\ perr[c] = 0
               /\ Solicited(Replies(c)) = Replies(c)
               /\ IsPrefix(parsed[c], FramesOf(bytes))
               /\ pc[c] = "read" =>
                      /\ parsed[c] = FramesOf(bytes)
                      /\ buffer[c] = Remainder(bytes)
                      /\ Len(Replies(c)) = Len(parsed[c])

\* C7 witness: a SET arrived in two reads, was executed and answered, and the
\* prefix of the next command waits in the read buffer
C7_Witness ==
    \E c \in Conns :
        /\ Len(stream[c]) = 3 /\ pc[c] = "read"
        /\ stream[c][1] = <<Hd(Cmd("SET", <<"a">>, 1))>>
        /\ stream[c][2] = <<Tl>>
        /\ Len(buffer[c]) = 1 /\ buffer[c] = stream[c][3]
        /\ Len(parsed[c]) = 1 /\ Len(Replies(c)) = 1
        /\ data[hash_key("a")]["a"] = 1

\* request i of connection c fails at command level
Failing(c, i) ==
    LET r == parsed[c][i] IN
    \/ r.op = "FOO"
    \/ r.op = "GET" /\ r.keys = <<>>
    \/ r.op = "LLEN" /\ \E j \in 1 .. (i - 1) : parsed[c][j].op = "SET"

\* C6: a well-framed request that fails at command level (unknown command,
\* wrong arity, wrong type) gets exactly one error reply, in its position among
\* the replies, and the connection stays open: the handler ends only on end of
\* input or buffer overflow, and the requests after it are executed and answered.
C6_CommandErrors ==
    \A c \in Conns :
        LET S == Solicited(Replies(c)) IN
        /\ \A i \in 1 .. Len(S) :
               /\ S[i].id = i
               /\ S[i].resp.t = "Error" <=> Failing(c, i)
        /\ (WellFormed(Flat(stream[c])) /\ pc[c] = "read") =>
               /\ parsed[c] = FramesOf(Flat(stream[c]))
               /\ Replies(c) = S
               /\ Len(S) = Len(parsed[c])
        /\ pc[c] = "closed" => (eof[c] \/ ovf[c] > 0)

\* C6 witness: a command got a wrong-type error and the command after it was
\* executed and answered
C6_Witness ==
    \E c \in Conns :
        /\ pc[c] = "read" /\ WellFormed(Flat(stream[c])) /\ Len(parsed[c]) = 3
        /\ parsed[c][2].op = "LLEN" /\ Replies(c)[2].resp.t = "Error"
        /\ Replies(c)[3] = Reply(3, SimpleString("OK"))

\* C5 (as claimed): once the handler has met malformed input it has sent one
\* error reply as its last reply and the connection is closed.
C5_ParseErrorCloses ==
    \A c \in Conns :
        perr[c] > 0 =>
            /\ pc[c] = "closed"
            /\ perr[c] = 1
            /\ Replies(c)[Len(Replies(c))].resp = Error("protocol error")

\* C8: the read buffer never holds more than MAX_BUFFER_SIZE bytes; a read
\* that would take it past the bound is answered with one error reply, the
\* last reply of the connection, and the handler ends without parsing more.
C8_BufferBound ==
    \A c \in Conns :
        LET over == {i \in 1 .. Len(Replies(c)) :
                        Replies(c)[i].resp = Error("buffer overflow")}
        IN
        /\ BufLen(buffer[c]) <= MAX_BUFFER_SIZE
        /\ ovf[c] = 0 => over = {}
        /\ ovf[c] > 0 =>
               /\ ovf[c] > MAX_BUFFER_SIZE
               /\ pc[c] = "closed"
               /\ over = {Len(Replies(c))}
               /\ Replies(c)[Len(Replies(c))].after = Len(parsed[c])

\* C8 witness: the buffer held exactly MAX_BUFFER_SIZE bytes and the read of
\* one more byte closed the connection
C8_Witness == \E c \in Conns : ovf[c] = MAX_BUFFER_SIZE + 1

\* the connections whose handler runs its read/dispatch loop
Running == {c \in Conns : pc[c] \in {"read", "await"}}

\* C9: the handlers running are at most the semaphore's capacity: each holds
\* one permit from before its loop starts until it ends.
C9_HandlersBounded ==
    /\ Cardinality(Running) <= MaxConnections
    /\ permits = MaxConnections - Cardinality(Running)
    /\ permits >= 0

\* C9 witness: every permit is held, one of them by a handler that got it
\* after another handler had ended
C9_Witness ==
    /\ permits = 0
    /\ Cardinality(Running) = MaxConnections
    /\ \E c \in Conns : pc[c] = "closed"

\* C10 (as claimed): no connection is accepted, and no task spawned, without a
\* permit: the accepted connections that have not ended are at most the permits.
C10_AcceptHoldsPermit ==
    Cardinality({c \in Conns : pc[c] \in {"spawned", "read", "await"}}) <= MaxConnections

\* the last command found its key stored with an expiry that had passed
HitExpired == tlast.had # 0 /\ tlast.exp # 0 /\ tlast.at >= tlast.exp

\* the last command found its key stored and not expired
HitLive == tlast.had # 0 /\ (tlast.exp = 0 \/ tlast.at < tlast.exp)

\* C11: a GET returns a key that has an expiry e only at a time before e; at
\* any time from e on, e itself included, GET returns nil and TTL, EXISTS,
\* DEL and LLEN answer as for an absent key; before e the key is readable.
C11_ExpiredIsAbsent ==
    /\ tlast.cmd.op = "GET" /\ tlast.resp # BulkNil => HitLive /\ tlast.resp = BulkString(tlast.had)
    /\ tlast.cmd.op = "GET" /\ HitLive => tlast.resp = BulkString(tlast.had)
    /\ HitExpired =>
          /\ tlast.cmd.op = "GET" => tlast.resp = BulkNil
          /\ tlast.cmd.op = "TTL" => tlast.resp = Integer(0 - 2)
          /\ tlast.cmd.op \in {"EXISTS", "DEL", "LLEN"} => tlast.resp = Integer(0)
          /\ tlast.cmd.op \in {"GET", "TTL", "EXISTS", "DEL", "LLEN"} =>
                srv.data[tlast.cmd.keys[1]] = 0
C11_Witness ==
    /\ tlast.cmd.op = "GET"
    /\ tlast.had # 0
    /\ tlast.exp # 0
    /\ tlast.at = tlast.exp
    /\ tlast.resp = BulkNil

\* key k is stored on its shard with an expiry that has passed
Overdue(k) ==
    LET ex == shardExec[hash_key(k)] IN
    ex.data[k] # 0 /\ ex.expirations[k] # 0 /\ ex.expirations[k] <= now

\* a turn of the sweep's loop removes only keys whose expiry is at or before
\* the time the sweep read, which is not in the future
SweepRemovesOnlyExpired ==
    sweep.pc = "evict" /\ sweep'.pc = "evict" /\ sweep'.i # sweep.i =>
        \A s \in Shards : \A k \in Keys :
            shardExec[s].data[k] # 0 /\ shardExec'[s].data[k] = 0 =>
                /\ shardExec[s].expirations[k] # 0
                /\ shardExec[s].expirations[k] <= sweep.at
                /\ sweep.at <= now

Stored(v) == IF v = 0 THEN BulkNil ELSE BulkString(v)

\* C13: MGET, MSET and multi-key EXISTS go key by key: each key of an MGET
\* or EXISTS is answered with the value one whole write left on the key's
\* shard, not older than the connection's own acknowledged write, and each
\* key's stored value is the value of the last write applied to it; nothing
\* ties the keys together (the witness is an MGET answered with the new
\* value of one key and the old value of the other).
C13_PerKeyAtomicOnly ==
    /\ \A c \in Conns :
          (pc[c] = "await" /\ reply[c].full /\ cur[c].cmd.op \in {"MGET", "EXISTS"}) =>
              LET k == cur[c].sub.keys[1]
                  v == ValueOfWrite(hash_key(k), reply[c].ver)
              IN
              /\ reply[c].ver >= lastAck[c][k]
              /\ cur[c].cmd.op = "MGET" => reply[c].resp = v
              /\ cur[c].cmd.op = "EXISTS" =>
                    reply[c].resp = Integer(IF v = BulkNil THEN 0 ELSE 1)
    /\ \A k \in Keys :
          Stored(data[hash_key(k)][k]) = ValueOfWrite(hash_key(k), kver[hash_key(k)][k])
C13_Witness ==
    /\ data[hash_key("a")]["a"] # 0
    /\ data[hash_key("c")]["c"] # 0
    /\ \E c \in Conns : \E i \in 1 .. Len(Replies(c)) : \E v \in Conns :
          Replies(c)[i].resp = Array(<<BulkString(v), BulkNil>>)

\* the deltas applied at replica r
AppliedAt(r) == {applied[r][i] : i \in 1 .. Len(applied[r])}

\* every emitted delta has reached every replica: its writer holds it from
\* the write, the others have applied it
Exchanged ==
    \A r \in Replicas : \A d \in emitted : d.value.replica = r \/ d \in AppliedAt(r)

\* C14: once every delta emitted for K has been applied at every replica, in
\* whatever order and however often, all replicas hold the same replicated
\* value for K.
C14_Convergence ==
    Exchanged =>
        \A r1, r2 \in Replicas : nodes[r1].replicated_keys[K] = nodes[r2].replicated_keys[K]
C14_Witness ==
    /\ Exchanged
    /\ \A r \in Replicas : \E d \in emitted : d.value.replica = r
    /\ \E r \in Replicas : \E i, j \in 1 .. Len(applied[r]) : i < j /\ applied[r][i] = applied[r][j]
    /\ \E r \in Replicas : \E i, j \in 1 .. Len(applied[r]) :
          i < j /\ applied[r][i].value.time > applied[r][j].value.time

\* the Lamport tuple of x is lower than that of y
TupleLess(x, y) == x.time < y.time \/ (x.time = y.time /\ x.replica < y.replica)

\* delta d is the last write of its replica
IsLatest(d) == \A e \in emitted : e.value.replica = d.value.replica => e.value.time <= d.value.time

\* C15: when two replicas have each written K and each has applied the
\* other's (last) delta, both hold the write with the higher
\* (time, replica_id) tuple: the higher time wins, equal times go to the
\* higher replica id.
C15_HigherTupleWins ==
    \A d1, d2 \in emitted :
        (/\ IsLatest(d1) /\ IsLatest(d2)
         /\ d1.value.replica # d2.value.replica
         /\ d1 \in AppliedAt(d2.value.replica)
         /\ d2 \in AppliedAt(d1.value.replica)
         /\ TupleLess(d1.value, d2.value)) =>
            \A r \in Replicas : nodes[r].replicated_keys[K] = d2.value
C15_Witness ==
    \E d1, d2 \in emitted :
        /\ emitted = {d1, d2}
        /\ d1.value.time = d2.value.time
        /\ d1.value.replica < d2.value.replica
        /\ d1 \in AppliedAt(d2.value.replica)
        /\ d2 \in AppliedAt(d1.value.replica)
        /\ \A r \in Replicas : nodes[r].replicated_keys[K] = d2.value

\* the data map of shard sh agrees with its replicated value of key k
InSync(sh, k) ==
    LET rv == sh.replicated_keys[k] IN
    IF rv.tombstone \/ rv = NoValue THEN sh.executor[k] = 0 ELSE sh.executor[k] = rv.v

\* C16: after a replicated shard has applied a remote delta for K, its data
\* map agrees with the merged replicated value of K: the merged payload when
\* it is live, no entry when it is a tombstone.
C16_DataMapFollowsMerge ==
    \A r \in Replicas : applied[r] # <<>> => InSync(nodes[r], K)

\* replica r applies delta d in this step
Applies(r, d) == applied'[r] = Append(applied[r], d)

\* C17: a replica that holds a tombstone for K and applies a write delta with
\* a lower tuple still has no K in its data map, and a replica that holds a
\* write and applies a tombstone with a lower tuple still has the write's value.
C17_NoResurrection ==
    [][\A r \in Replicas : \A d \in emitted :
          LET held == nodes[r].replicated_keys[K] IN
          (Applies(r, d) /\ InSync(nodes[r], K) /\ TupleLess(d.value, held)) =>
              /\ held.tombstone /\ ~d.value.tombstone =>
                    execute(nodes'[r].executor, Cmd("GET", <<K>>, 0)).resp = BulkNil
              /\ ~held.tombstone /\ d.value.tombstone =>
                    execute(nodes'[r].executor, Cmd("GET", <<K>>, 0)).resp = BulkString(held.v)]_vars

C20_MergeAssociative ==
    mres.kind = "merge" => mres.ab_c = mres.a_bc
C20_Witness ==
    /\ mres.kind = "merge"
    /\ TupleLess(margs[1], margs[2]) /\ TupleLess(margs[3], margs[2])
    /\ margs[1] # NoValue /\ margs[3] # NoValue /\ margs[1] # margs[3]
    /\ margs[2].tombstone
    /\ mres.ab_c = margs[2]
    /\ mres.a_bc = margs[2]

\* the deltas replica r has emitted
EmittedBy(r, ds) == {d \in ds : d.value.replica = r}

\* C21: the Lamport times of the deltas one replica emits are strictly
\* increasing in emission order, also when remote deltas are applied between
\* its writes, and a write made after applying a delta carries a time
\* greater than that delta's.
C21_LamportMonotonic ==
    [][\A r \in Replicas :
          nodes'[r].replicated_keys[K] # nodes[r].replicated_keys[K] /\ applied'[r] = applied[r] =>
              LET d == nodes'[r].replicated_keys[K] IN
              /\ d.replica = r
              /\ \A e \in EmittedBy(r, emitted) : e.value.time < d.time
              /\ \A a \in AppliedAt(r) : a.value.time < d.time
              /\ ReplicationDelta(K, d) \in emitted']_vars
C21_Witness ==
    \E r \in Replicas : \E d, e \in EmittedBy(r, emitted) : \E a \in AppliedAt(r) :
        /\ a.value.replica # r
        /\ e.value.time <= a.value.time
        /\ a.value.time < d.value.time
        /\ nodes[r].replicated_keys[K] = d.value

\* a ring whose membership changes and that is asked for replicas
InitRing ==
    /\ InitIdle /\ TtlInit /\ CrdtIdle /\ MergeIdle
    /\ \E v \in 0 .. MaxV : RingInit(v, 1)
    /\ GossipInit(FALSE, NoRouter)
    /\ LastIdle
NextRing ==
    \/ \E node \in RingNodes : AddNode(node)
    \/ \E node \in RingNodes : RemoveNode(node)
    \/ \E key_pos \in 0 .. (HashSpace - 1) : \E rf \in 0 .. MaxRf : GetReplicas(key_pos, rf)
SpecRing == InitRing /\ [][NextRing]_vars

\* the gossip actor and the clients of its handle; key a is hot, key c is not
GossipDeltas ==
    LET da == ReplicationDelta("a", ReplicatedValue(1, 1, LocalReplica, FALSE))
        dc == ReplicationDelta("c", ReplicatedValue(1, 2, LocalReplica, FALSE))
    IN  {<<>>, <<da>>, <<da, dc>>}
Routers ==
    {GossipRouter(HashRingNew(members, v, rf), hot) :
        members \in {<<1, 2>>, <<1, 2, 3>>}, v \in {MaxV}, rf \in 1 .. 2, hot \in {{"a"}}}
InitGossip ==
    /\ InitIdle /\ TtlInit /\ CrdtIdle /\ MergeIdle
    /\ RingInit(1, 1)
    /\ \E selective \in BOOLEAN : \E router \in {NoRouter} \cup Routers :
           GossipInit(selective, router)
    /\ LastIdle
NextGossip ==
    \/ \E deltas \in GossipDeltas : GQueueDeltas(deltas)
    \/ \E msg \in {GossipMessage("QueueHeartbeat", NoRouter),
                   GossipMessage("DrainOutbound", NoRouter)}
                  \cup {GossipMessage("SetRouter", router) : router \in Routers} : GSend(msg)
    \/ GossipRun
SpecGossip == InitGossip /\ [][NextGossip]_vars

\* the key's value in the executor of the shard caller c holds locked
HeldValue(c) == rshards[rcall[c].shard].executor[get_primary_key(rcall[c].cmd)]

\* C22: ReplicatedShard::execute returns a delta if and only if the command
\* succeeded and changed the key (a SET always writes), and the delta's
\* payload is the value the executor holds for the key after the command, a
\* tombstone when it holds none.
C22_DeltaIffMutation ==
    \A c \in Callers :
        rcall[c].pc \in {"gossip", "sink"} =>
            LET call == rcall[c]
                mutated == /\ call.result.t # "Error"
                           /\ (call.cmd.op = "SET" \/ HeldValue(c) # call.before)
            IN
            /\ call.delta # NoDelta <=> mutated
            /\ call.delta # NoDelta =>
                  /\ call.delta.key = get_primary_key(call.cmd)
                  /\ call.delta.value.tombstone <=> HeldValue(c) = 0
                  /\ call.delta.value.v = HeldValue(c)

\* the deltas the replicated state has produced, shard by shard
Produced == UNION {{rshards[s].pending[i] : i \in DOMAIN rshards[s].pending} : s \in Shards}

\* the deltas handed to the gossip backend, and those sent to the sink, in order
GossipQueued == [i \in DOMAIN gmail |-> gmail[i].deltas[1]]
SinkSent == sinkrecv \o sinkq
Count(x, q) == Cardinality({i \in DOMAIN q : q[i] = x})
Quiescent == \A c \in Callers : rcall[c].pc \in {"idle", "done"}

\* C23: once no caller is inside execute, every delta a local mutation
\* produced, those of the per-key SETs of an MSET included, has been queued to
\* the gossip backend exactly once if replication is enabled and sent to the
\* delta sink exactly once if a sink is installed and open.
C23_EveryDeltaForwardedOnce ==
    Quiescent =>
        \A d \in Produced :
            /\ rcfg.enabled => Count(d, GossipQueued) = 1
            /\ rcfg.sink = "open" => Count(d, SinkSent) = 1

NotReplicated == {"FLUSHDB", "FLUSHALL", "GET", "MGET", "EXISTS", "KEYS", "TTL", "PING", "INFO"}
Pending == [s \in Shards |-> rshards[s].pending]

\* C24: a FLUSHDB, FLUSHALL, GET, MGET, EXISTS, KEYS, TTL, PING or INFO a
\* caller executes leaves every shard's pending-delta queue, the gossip queue
\* and the delta sink as they were, in each step of the call.
C24_NotReplicated ==
    [][\A c \in Callers :
          rcall'[c] # rcall[c] /\ rcall'[c].cmd.op \in NotReplicated =>
              /\ Pending' = Pending
              /\ gmail' = gmail
              /\ sinkq' = sinkq /\ sinkrecv' = sinkrecv]_vars
C24_Witness ==
    /\ \E c \in Callers : rcall[c].pc = "done" /\ rcall[c].cmd.op = "FLUSHDB"
    /\ rshards[hash_key("a")].executor["a"] = 0
    /\ ~rshards[hash_key("a")].replicated_keys["a"].tombstone
    /\ Len(rshards[hash_key("a")].pending) = 1
    /\ Len(gmail) = 1 /\ Len(SinkSent) = 1

\* C25: the deltas of one key reach the delta sink in the order of their
\* commits, and the receiver gets them in that order: in what try_recv and
\* drain have returned followed by what the channel holds, a key's deltas
\* stand in the order the shard recorded them, with concurrent callers too.
C25_SinkOrderPerKey ==
    \A i, j \in DOMAIN SinkSent :
        i < j /\ SinkSent[i].key = SinkSent[j].key =>
            \E s \in Shards : \E m, n \in DOMAIN rshards[s].pending :
                /\ m < n
                /\ rshards[s].pending[m] = SinkSent[i]
                /\ rshards[s].pending[n] = SinkSent[j]
C25_Witness ==
    /\ rcall[1].pc = "done" /\ rcall[2].pc = "done"
    /\ rcall[1].delta # NoDelta /\ rcall[2].delta # NoDelta
    /\ rcall[1].delta.key = rcall[2].delta.key
    /\ rcall[2].delta.value.time < rcall[1].delta.value.time
    /\ sinkrecv = <<rcall[2].delta, rcall[1].delta>>

\* the reply the executor gives the command of a call
NormalReply(call) == execute([k \in Keys |-> call.before], call.cmd).resp

\* C26: when the sink's receiver is gone, send returns Disconnected at once:
\* the call is never stuck at the send, the mutation is recorded, the delta is
\* queued for gossip if replication is enabled, and the call returns the
\* command's normal reply.
C26_SinkFailureSilent ==
    \A c \in Callers :
        /\ rcall[c].pc = "sink" /\ rcfg.sink = "closed" => ENABLED RSink(c)
        /\ rcall[c].pc = "done" /\ rcall[c].outcome = "Disconnected" =>
              /\ rcall[c].delta \in Produced
              /\ rcfg.enabled => Count(rcall[c].delta, GossipQueued) = 1
              /\ Count(rcall[c].delta, SinkSent) = 0
              /\ rcall[c].result = NormalReply(rcall[c])
C26_Witness ==
    \E c \in Callers :
        /\ rcall[c].pc = "done" /\ rcall[c].outcome = "Disconnected"
        /\ rcall[c].cmd.op = "SET" /\ rcall[c].result = SimpleString("OK")
        /\ rcfg.enabled /\ Count(rcall[c].delta, GossipQueued) = 1
        /\ rshards[rcall[c].shard].executor[rcall[c].delta.key] = rcall[c].cmd.val

\* the replicas the ring gives key under its own replication factor, but the origin
AllowedTargets(router, key) ==
    SeqRange(get_replicas_with_rf(router.ring, key, rf_of(router, key))) \ {LocalReplica}

C28_ReplicaCount ==
    rq.asked =>
        /\ Len(rq.replicas) = (IF rq.rf < Len(ring.physical_nodes) THEN rq.rf
                               ELSE Len(ring.physical_nodes))
        /\ \A i, j \in DOMAIN rq.replicas : i # j => rq.replicas[i] # rq.replicas[j]
        /\ SeqRange(rq.replicas) \subseteq SeqRange(ring.physical_nodes)

\* C29: the ring's version never decreases, increases when the set of
\* physical nodes changes and stays the same when it does not.
C29_VersionTracksMembership ==
    [][/\ ring'.version >= ring.version
       /\ SeqRange(ring'.physical_nodes) # SeqRange(ring.physical_nodes) =>
             ring'.version > ring.version
       /\ SeqRange(ring'.physical_nodes) = SeqRange(ring.physical_nodes) =>
             ring'.version = ring.version]_vars

RECURSIVE Flatten(_)
Flatten(batches) == IF batches = <<>> THEN <<>> ELSE Head(batches) \o Flatten(Tail(batches))

\* C30: the batches DrainOutbound has returned, one after the other and
\* followed by what the outbound queue holds, are the routed messages in the
\* order they were queued: each is returned by one drain, none twice, none lost.
C30_DrainedOnce ==
    /\ Flatten(glog.drains) \o gstate.outbound = glog.queued
    /\ \A i, j \in DOMAIN glog.queued : i # j => glog.queued[i].id # glog.queued[j].id
C30_Witness ==
    /\ Len(glog.drains) = 2
    /\ Len(glog.drains[1]) = 2
    /\ glog.drains[2] = <<>>
    /\ gmail = <<>>

\* ---------------------------------------------------------- C31, C37

\* everything outside the seven last components, idle
BaseIdle ==
    /\ InitIdle /\ TtlInit /\ CrdtIdle /\ MergeIdle
    /\ RingInit(1, 1) /\ GossipInit(FALSE, NoRouter)

InitActor ==
    /\ BaseIdle
    /\ \E kind \in ActorKinds : SaInit(kind)
    /\ PsIdle /\ AdaptIdle /\ WireIdle /\ PoolIdle /\ VtIdle /\ LocksIdle

NextActor ==
    \/ \E c \in Callers : \E cmd \in ActorCmds : SaExecute(c, cmd)
    \/ \E c \in Callers : SaDrain(c)
    \/ \E c \in Callers : SaShutdown(c)
    \/ ActorRun
    \/ ActorDropped

SpecActor == InitActor /\ [][NextActor]_vars /\ WF_vars(ActorRun)

IsErrorReply(v) == v.t = "Error"

\* C31: an execute the actor did not run returns a RESP error, which is
\* 'ERR shard unavailable' when the send failed (the only way it returns with
\* the actor stopped and nothing queued); and no execute waits forever.
C31_StoppedShardReplies ==
    /\ [](\A c \in Callers :
            (sa.calls[c].st = "done" /\ sa.calls[c].op = "Execute" /\ ~sa.calls[c].ran) =>
               /\ IsErrorReply(sa.calls[c].resp)
               /\ ~sa.calls[c].queued => sa.calls[c].resp = Error("ERR shard unavailable"))
    /\ \A c \in Callers :
          (sa.calls[c].st = "waiting" /\ sa.calls[c].op = "Execute") ~> (sa.calls[c].st = "done")

\* C37: the lists the drains returned, in order, followed by what is still
\* pending, are the deltas recorded on the shard in commit order; a drain
\* returns the whole queue and leaves it empty.
C37_DrainReturnsAllOnce ==
    /\ [](Flatten(sa.drains) \o sa.shard.pending = sa.recorded)
    /\ [][sa'.drains # sa.drains =>
            /\ sa'.drains = Append(sa.drains, sa.shard.pending)
            /\ sa'.shard.pending = <<>>]_vars

\* a drain returned a delta and the next drain, with no write in between,
\* returned the empty list
C37_Witness ==
    /\ sa # <<>>
    /\ Len(sa.drains) >= 2
    /\ sa.drains[1] # <<>>
    /\ sa.drains[2] = <<>>
    /\ Len(sa.recorded) = Len(sa.drains[1])

\* ---------------------------------------------------------- C32, C33, C38

InitPersist ==
    /\ BaseIdle
    /\ \E store \in Stores : PsInit(store)
    /\ SaIdle /\ AdaptIdle /\ WireIdle /\ PoolIdle /\ VtIdle /\ LocksIdle

NextPersist ==
    \/ \E outcome \in {"data", "empty", "error"} : PsRecover(outcome)
    \/ \E ok \in BOOLEAN : PsStartWorkers(ok)
    \/ \E ok \in BOOLEAN : PsBind(ok)
    \/ PsAccept
    \/ PsSignal
    \/ \E h \in Handlers : \E key \in {"a", "b"} : PsHandle(h, key)
    \/ \E h \in Handlers : PsClose(h)
    \/ PsShutdownWorkers
    \/ PsJoin
    \/ WorkerCheck
    \/ \E flush \in BOOLEAN : WorkerPoll(flush)
    \/ WorkerFinal

\* the worker's task is scheduled as long as the runtime lives
SpecPersist ==
    /\ InitPersist /\ [][NextPersist]_vars
    /\ WF_vars(WorkerCheck) /\ WF_vars(\E flush \in BOOLEAN : WorkerPoll(flush))
    /\ WF_vars(WorkerFinal)

\* C32: a recovery error ends main with the listener never bound and no
\* command executed; with no persisted data the keyspace is empty until the
\* first command; the listener is bound, and a connection accepted, only
\* after recovery has finished.
C32_RecoveryBeforeServing ==
    /\ pserver.recovery = "error" =>
          /\ pserver.main = "exited_err"
          /\ ~pserver.listener
          /\ pserver.executed = 0
          /\ \A h \in Handlers : pserver.handlers[h] = "none"
    /\ (pserver.recovery = "empty" /\ pserver.executed = 0) =>
          \A k \in Keys : pserver.keyspace[k] = 0
    /\ (pserver.listener \/ \E h \in Handlers : pserver.handlers[h] # "none") =>
          pserver.recovery \in {"data", "empty"}

C32_Witness ==
    /\ pserver # <<>>
    /\ pserver.store # <<>>
    /\ pserver.recovery = "error"
    /\ pserver.main = "exited_err"

\* C33: once the shutdown signal has been taken no connection is accepted,
\* the workers are shut down only when no handler is still running, and at
\* exit the delta of every command replied to has been flushed.
C33_DrainBeforeWorkerShutdown ==
    /\ [](pserver.shutdown => \A h \in Handlers : pserver.handlers[h] # "open")
    /\ [](pserver.main = "exited_ok" =>
            \A i \in DOMAIN pserver.replied :
               \E j \in DOMAIN pserver.flushed : pserver.flushed[j] = pserver.replied[i])
    /\ [][pserver.main \in {"shutdown", "joining", "exited_ok"} =>
            pserver'.handlers = pserver.handlers \/
            \E h \in Handlers : pserver'.handlers[h] = "closed"]_vars

InitAdapt ==
    /\ BaseIdle
    /\ AdaptInit
    /\ SaIdle /\ PsIdle /\ WireIdle /\ PoolIdle /\ VtIdle /\ LocksIdle

NextAdapt ==
    \/ \E key \in AdaptKeys : Observe(key)
    \/ AdaptTick
    \/ Recalculate

SpecAdapt == InitAdapt /\ [][NextAdapt]_vars

LastRecalc == adapt.log[Len(adapt.log)]

InitWire ==
    /\ BaseIdle
    /\ \E value \in WireValues : \E trailing \in WireTrailing : WireInit(value, trailing)
    /\ SaIdle /\ PsIdle /\ AdaptIdle /\ PoolIdle /\ VtIdle /\ LocksIdle

NextWire == WireEncode \/ WireParse

SpecWire == InitWire /\ [][NextWire]_vars

\* C35: parsing the encoding of a RESP value, whatever follows it in the
\* buffer, yields that value and leaves exactly what follows it.
C35_RoundTrip ==
    wire.phase = "parsed" =>
       /\ wire.result.st = "Parsed"
       /\ wire.result.value = wire.value
       /\ wire.result.rest = wire.trailing
       /\ Len(wire.bytes) - Len(wire.result.rest) = Len(encode_resp_into(wire.value))

\* a nested array holding a nil array and an inner array with a bulk string
\* that contains CR LF has been parsed back, with bytes following it
C35_Witness ==
    /\ wire # <<>>
    /\ wire.phase = "parsed"
    /\ wire.value = Arr(<<NilArray, Arr(<<Bulk(CRLF), Num(0)>>)>>)
    /\ wire.trailing # <<>>
    /\ wire.result.value = wire.value

\* ---------------------------------------------------------- C36

InitPool ==
    /\ BaseIdle
    /\ PoolInit
    /\ SaIdle /\ PsIdle /\ AdaptIdle /\ WireIdle /\ VtIdle /\ LocksIdle

NextPool ==
    \/ \E c \in PoolConns : PoolAcquire(c)
    \/ \E c \in PoolConns : \E i \in 1 .. 2 :
          \E len \in {1, 2 * BufCapacity, 2 * BufCapacity + 1} : PoolUse(c, i, len)
    \/ \E c \in PoolConns : PoolLeave(c)
    \/ \E c \in PoolConns : PoolRelease(c)

SpecPool == InitPool /\ [][NextPool]_vars

\* C36: a connection that is to acquire a buffer can always do so, every
\* buffer acquire has returned was empty, and the pool holds at most its
\* configured number of buffers, none of them larger than twice the nominal
\* capacity.
C36_PoolBounded ==
    /\ \A c \in PoolConns : bpool.phase[c] = "new" => ENABLED PoolAcquire(c)
    /\ \A c \in PoolConns : bpool.acquired[c].len = 0
    /\ Len(bpool.pool) <= PoolSize
    /\ \A i \in DOMAIN bpool.pool : bpool.pool[i].cap <= 2 * BufCapacity

\* a connection got a fresh buffer from the empty pool, and a buffer that
\* had grown beyond twice the nominal capacity was dropped on release while
\* a used one came back cleared and was handed out again
C36_Witness ==
    /\ bpool # <<>>
    /\ bpool.fresh
    /\ \E c \in PoolConns :
          /\ bpool.rounds[c] >= 1
          /\ bpool.held[c] # <<>>
          /\ bpool.held[c][1].cap > BufCapacity
          /\ bpool.held[c][1].len = 0
    /\ Len(bpool.pool) < PoolSize

\* ---------------------------------------------------------- C39

InitVt ==
    /\ BaseIdle
    /\ VtInit
    /\ SaIdle /\ PsIdle /\ AdaptIdle /\ WireIdle /\ PoolIdle /\ LocksIdle

NextVt ==
    \/ \E c \in VtConns : \E cmd \in VtCmds : VtReadClock(c, cmd)
    \/ \E c \in VtConns : VtSend(c)
    \/ VtRun
    \/ VtTick

SpecVt == InitVt /\ [][NextVt]_vars

\* C39: the times a shard's executor is set to, in the order the shard
\* processes its commands, never decrease, and a key the shard's clock has
\* shown as expired is not served by a later GET.
C39_ShardTimeMonotonic ==
    /\ \A i, j \in DOMAIN vtime.times : i <= j => vtime.times[i] <= vtime.times[j]
    /\ ~vtime.stale

\* ---------------------------------------------------------- C40

InitLocks ==
    /\ BaseIdle
    /\ LocksInit
    /\ SaIdle /\ PsIdle /\ AdaptIdle /\ WireIdle /\ PoolIdle /\ VtIdle

NextLocks ==
    \/ \E c \in Callers : \E method \in LockMethods : LockCall(c, method)
    \/ \E c \in Callers : LockAcquire(c)
    \/ \E c \in Callers : GossipAcquire(c)
    \/ \E c \in Callers : GossipRelease(c)
    \/ \E c \in Callers : LockRelease(c)

\* every caller is a thread that keeps running
SpecLocks ==
    /\ InitLocks /\ [][NextLocks]_vars
    /\ \A c \in Callers : WF_vars(LockStep(c))

\* C40: no caller holds two shard locks, the gossip-state lock is held with
\* at most one shard lock and no shard lock is awaited while holding it, some
\* caller inside a method can always take a step, and every call returns.
C40_LocksNeverNest ==
    /\ [](\A c \in Callers :
            /\ Cardinality(locks.call[c].held) <= 1
            /\ locks.call[c].g =>
                  (locks.call[c].has \/ LockPlan(locks.call[c].m)[locks.call[c].i].l < 0))
    /\ []((\E c \in Callers : locks.call[c].m # "idle") =>
            \E c \in Callers : ENABLED LockStep(c))
    /\ \A c \in Callers : (locks.call[c].m # "idle") ~> (locks.call[c].m = "idle")

\* one caller holds a shard's write lock and the gossip-state lock inside
\* execute while the other, in FLUSHDB, holds no lock and waits for that shard
C40_Witness ==
    /\ locks # <<>>
    /\ \E c, d \in Callers :
          /\ locks.call[c].m = "execute" /\ locks.call[c].g /\ locks.call[c].held # {}
          /\ locks.call[d].m = "execute_global FLUSHDB" /\ locks.call[d].i = LockShards
          /\ locks.call[d].held = {} /\ ~locks.call[d].has

====
